---------------------------- MODULE Spec2Model ----------------------------
(***************************************************************************)
(* Model of the Sudoku engine (package sudoku, Service) and of the game    *)
(* handlers (package handlers, GameHandler) that drive it.                 *)
(*                                                                         *)
(* A Board is the Go value [9][9]int: a function 0..8 -> (0..8 -> Int),    *)
(* indexed board[row][col], 0 meaning an empty cell.  The engine's         *)
(* functions are operators computed the way the code computes them: loops  *)
(* become recursive scans in the code's order, and the recursive solvers   *)
(* thread the board they mutate through every call and return it.          *)
(***************************************************************************)
EXTENDS Integers, Sequences, FiniteSets, TLC

(***************************************************************************)
(* Board basics                                                            *)
(***************************************************************************)
Idx == 0..8

\* the cells in row-major order: position 9 * row + col
Positions == 0..80

Digits == 1..9

\* var board Board : the zero value of [9][9]int
EmptyBoard == [i \in Idx |-> [j \in Idx |-> 0]]

SetMin(S) == CHOOSE x \in S : \A y \in S : x <= y

\* the first position, in the order of the loops "for i { for j {", whose
\* cell is empty, as a position 0..80 (81 when the loops run to their end)
FirstEmpty(board) ==
    LET rows == {i \in Idx : \E j \in Idx : board[i][j] = 0}
    IN  IF rows = {} THEN 81
        ELSE LET i == SetMin(rows)
             IN  9 * i + SetMin({j \in Idx : board[i][j] = 0})

(***************************************************************************)
(* StringToBoard and BoardToString.  A Go string is its sequence of bytes  *)
(* (0..255); the characters '0'..'9' are the bytes 48..57.                 *)
(***************************************************************************)
\* s[i] with i < 81 is out of range for a shorter string: a run-time panic
StringToBoardPanics(s) == Len(s) < 81

\* StringToBoard that fills the board column by column
StringToBoardByColumn(s) ==
    [row \in Idx |-> [col \in Idx |-> (s[9 * col + row + 1] - 48) % 256]]

\* board[row][col] = int(s[i] - '0') for i < 81, row = i / 9, col = i % 9;
\* the subtraction is on bytes and wraps; bytes past the 81st are not read
StringToBoard(s) ==
    [row \in Idx |-> [col \in Idx |-> (s[9 * row + col + 1] - 48) % 256]]

\* string(rune(r)): the UTF-8 encoding of the code point r, for r < 2048
RuneBytes(r) ==
    IF r < 0 THEN << 239, 191, 189 >>
    ELSE IF r < 128 THEN << r >>
    ELSE << 192 + (r \div 64), 128 + (r % 64) >>

RECURSIVE BoardToStringFrom(_, _)
BoardToStringFrom(board, pos) ==
    IF pos >= 81 THEN << >>
    ELSE RuneBytes(board[pos \div 9][pos % 9] + 48)
             \o BoardToStringFrom(board, pos + 1)

\* s += string(rune(board[i][j] + '0')), cell after cell in row-major order
BoardToString(board) == BoardToStringFrom(board, 0)

(***************************************************************************)
(* IsValidMove: row, column and box scans, each excluding the cell itself  *)
(* by position.                                                            *)
(***************************************************************************)
\* IsValidMove whose scans do not leave out the cell itself
IsValidMoveCountingSelf(board, row, col, value) ==
    LET boxRow == (row \div 3) * 3
        boxCol == (col \div 3) * 3
    IN  /\ \A j \in Idx : board[row][j] # value
        /\ \A i \in Idx : board[i][col] # value
        /\ \A i \in boxRow..(boxRow + 2) : \A j \in boxCol..(boxCol + 2) :
              board[i][j] # value

IsValidMove(board, row, col, value) ==
    LET boxRow == (row \div 3) * 3
        boxCol == (col \div 3) * 3
    IN  /\ \A j \in Idx : ~(board[row][j] = value /\ j # col)
        /\ \A i \in Idx : ~(board[i][col] = value /\ i # row)
        /\ \A i \in boxRow..(boxRow + 2) : \A j \in boxCol..(boxCol + 2) :
              ~(board[i][j] = value /\ (i # row \/ j # col))

\* GetCandidates without its test for a filled cell
GetCandidatesOfAnyCell(board, row, col) ==
    SelectSeq(<<1, 2, 3, 4, 5, 6, 7, 8, 9>>,
              LAMBDA value : IsValidMove(board, row, col, value))

\* GetCandidates: empty for a filled cell, else the valid values ascending
GetCandidates(board, row, col) ==
    IF board[row][col] # 0 THEN << >>
    ELSE SelectSeq(<<1, 2, 3, 4, 5, 6, 7, 8, 9>>,
                   LAMBDA value : IsValidMove(board, row, col, value))


(***************************************************************************)
(* Deduction engine                                                        *)
(***************************************************************************)
Move(row, col, value, reason) ==
    [Row |-> row, Col |-> col, Value |-> value, Reason |-> reason]

\* FindNakedSingles: the loops over i and j, appending in that order
RECURSIVE NakedFrom(_, _)
NakedFrom(board, pos) ==
    IF pos >= 81 THEN << >>
    ELSE LET i == pos \div 9
             j == pos % 9
             candidates == GetCandidates(board, i, j)
         IN  IF board[i][j] = 0 /\ Len(candidates) = 1
             THEN <<Move(i, j, candidates[1], "Naked Single")>>
                      \o NakedFrom(board, pos + 1)
             ELSE NakedFrom(board, pos + 1)

\* FindNakedSingles that hands its moves back last cell first
FindNakedSinglesReversed(board) ==
    LET moves == NakedFrom(board, 0)
    IN  [k \in 1..Len(moves) |-> moves[Len(moves) + 1 - k]]

FindNakedSingles(board) == NakedFrom(board, 0)

\* "for _, cand := range candidates { if cand == val {" finds val in the list
InCandidates(board, r, c, val) ==
    LET candidates == GetCandidates(board, r, c)
    IN  \E k \in 1..Len(candidates) : candidates[k] = val

SetMax(S) == CHOOSE x \in S : \A y \in S : y <= x

\* One (row, val) pass of the row loop: count the empty cells of the row
\* that have val as a candidate; colPos is the last of them.
HiddenInRow(board, r, val) ==
    LET hits == {c \in Idx : board[r][c] = 0 /\ InCandidates(board, r, c, val)}
    IN  IF Cardinality(hits) = 1
        THEN <<Move(r, SetMax(hits), val, "Hidden Single in Row")>>
        ELSE << >>

HiddenInColumn(board, c, val) ==
    LET hits == {r \in Idx : board[r][c] = 0 /\ InCandidates(board, r, c, val)}
    IN  IF Cardinality(hits) = 1
        THEN <<Move(SetMax(hits), c, val, "Hidden Single in Column")>>
        ELSE << >>

\* One (box, val) pass; the cells of a box are scanned r then c, so the last
\* hit is the one with the greatest 9*r + c.
HiddenInBox(board, boxRow, boxCol, val) ==
    LET hits == {p \in 0..80 :
                    /\ (p \div 9) \in boxRow..(boxRow + 2)
                    /\ (p % 9) \in boxCol..(boxCol + 2)
                    /\ board[p \div 9][p % 9] = 0
                    /\ InCandidates(board, p \div 9, p % 9, val)}
    IN  IF Cardinality(hits) = 1
        THEN <<Move(SetMax(hits) \div 9, SetMax(hits) % 9, val,
                    "Hidden Single in Box")>>
        ELSE << >>

\* The three loop nests of FindHiddenSingles, k counting the (unit, val)
\* passes in the order the code makes them: unit k \div 9, val 1 + k % 9.
RECURSIVE HiddenRowsFrom(_, _)
HiddenRowsFrom(board, k) ==
    IF k >= 81 THEN << >>
    ELSE HiddenInRow(board, k \div 9, 1 + (k % 9)) \o HiddenRowsFrom(board, k + 1)

RECURSIVE HiddenColumnsFrom(_, _)
HiddenColumnsFrom(board, k) ==
    IF k >= 81 THEN << >>
    ELSE HiddenInColumn(board, k \div 9, 1 + (k % 9))
             \o HiddenColumnsFrom(board, k + 1)

RECURSIVE HiddenBoxesFrom(_, _)
HiddenBoxesFrom(board, k) ==
    IF k >= 81 THEN << >>
    ELSE HiddenInBox(board, ((k \div 9) \div 3) * 3, ((k \div 9) % 3) * 3,
                     1 + (k % 9))
             \o HiddenBoxesFrom(board, k + 1)

\* FindHiddenSingles that checks the columns before the rows
FindHiddenSinglesColumnsFirst(board) ==
    HiddenColumnsFrom(board, 0) \o HiddenRowsFrom(board, 0)
        \o HiddenBoxesFrom(board, 0)

FindHiddenSingles(board) ==
    HiddenRowsFrom(board, 0) \o HiddenColumnsFrom(board, 0)
        \o HiddenBoxesFrom(board, 0)

(***************************************************************************)
(* Backtracking solver.  solve and countSolutions recurse once per empty   *)
(* cell; the recursion is carried by an explicit stack.  A machine state   *)
(* holds *board, the stack of the cells whose call is waiting in its loop  *)
(* over value (the value of such a call is the one standing in its cell),  *)
(* and mode: "call" on entry to a call, otherwise what the last call       *)
(* returned.                                                               *)
(***************************************************************************)
Pop(stack) == SubSeq(stack, 1, Len(stack) - 1)

Top(stack) == stack[Len(stack)]

Put(board, pos, value) == [board EXCEPT ![pos \div 9][pos % 9] = value]

\* NextValue that takes the greatest digit left
LastValue(board, pos, from) ==
    LET valid == {v \in from..9 : IsValidMove(board, pos \div 9, pos % 9, v)}
    IN  IF valid = {} THEN 10 ELSE SetMax(valid)

\* where "for value := ...; value <= 9; value++" next passes its
\* IsValidMove test when it goes on at value = from; 10 when it runs out
NextValue(board, pos, from) ==
    LET valid == {v \in from..9 : IsValidMove(board, pos \div 9, pos % 9, v)}
    IN  IF valid = {} THEN 10 ELSE SetMin(valid)

\* solve: the loop over value of the call at Top(stack) goes on at from
solveLoop(board, stack, from) ==
    LET pos == Top(stack)
        value == NextValue(board, pos, from)
    IN  IF value > 9
        THEN [board |-> board, stack |-> Pop(stack), mode |-> "false"]
        ELSE [board |-> Put(board, pos, value), stack |-> stack, mode |-> "call"]

\* solveNext that goes on with the next value without "board[i][j] = 0"
solveNextWithoutUndo(st) ==
    IF st.mode = "call"
    THEN LET pos == FirstEmpty(st.board)
         IN  IF pos = 81 THEN [st EXCEPT !.mode = "true"]
             ELSE solveLoop(st.board, Append(st.stack, pos), 1)
    ELSE IF st.mode = "true"
         THEN [st EXCEPT !.stack = Pop(st.stack)]
         ELSE LET pos == Top(st.stack)
              IN  solveLoop(st.board, st.stack,
                            st.board[pos \div 9][pos % 9] + 1)

\* solve: one call entered, or one return taken by the waiting caller
solveNext(st) ==
    IF st.mode = "call"
    THEN LET pos == FirstEmpty(st.board)
         IN  IF pos = 81 THEN [st EXCEPT !.mode = "true"]
             ELSE solveLoop(st.board, Append(st.stack, pos), 1)
    ELSE IF st.mode = "true"
         THEN [st EXCEPT !.stack = Pop(st.stack)]
         ELSE LET pos == Top(st.stack)
              IN  solveLoop(Put(st.board, pos, 0), st.stack,
                            st.board[pos \div 9][pos % 9] + 1)

\* the outermost call has returned
solveReturned(st) == st.mode # "call" /\ st.stack = << >>

\* 2^k steps of the machine, or fewer when it returns first
RECURSIVE solveRun(_, _)
solveRun(st, k) ==
    IF solveReturned(st) THEN st
    ELSE IF k = 0 THEN solveNext(st)
    ELSE solveRun(solveRun(st, k - 1), k - 1)

\* the machine run until the outermost call has returned
RECURSIVE solveUntilReturned(_, _)
solveUntilReturned(st, k) ==
    IF solveReturned(st) THEN st
    ELSE solveUntilReturned(solveRun(st, k), k + 1)

solveResult(end) == [ok |-> end.mode = "true", board |-> end.board]

\* solve(board): the result, and *board as the call leaves it
solve(board) ==
    solveResult(solveUntilReturned(
                    [board |-> board, stack |-> << >>, mode |-> "call"], 0))

\* what SolvePuzzle returns once solve(&solved) has returned res
SolvePuzzleReturn(board, res) ==
    IF res.ok THEN [board |-> res.board, success |-> TRUE]
    ELSE [board |-> board, success |-> FALSE]

\* SolvePuzzle: solve a copy; the caller's board comes back on failure
SolvePuzzle(board) == SolvePuzzleReturn(board, solve(board))

\* countSolutions: the loop over value of the call at Top(stack) goes on
countLoop(board, stack, count, from) ==
    LET pos == Top(stack)
        value == NextValue(board, pos, from)
    IN  IF value > 9
        THEN [board |-> board, stack |-> Pop(stack), count |-> count,
              mode |-> "return", finished |-> FALSE]
        ELSE [board |-> Put(board, pos, value), stack |-> stack,
              count |-> count, mode |-> "call", finished |-> FALSE]

\* countNext that never asks for the early exit
countNextUnlimited(st) ==
    IF st.mode = "call"
    THEN LET pos == FirstEmpty(st.board)
         IN  IF pos = 81
             THEN [st EXCEPT !.count = st.count + 1, !.mode = "return"]
             ELSE countLoop(st.board, Append(st.stack, pos), st.count, 1)
    ELSE countLoop(Put(st.board, Top(st.stack), 0), st.stack, st.count,
                   st.board[Top(st.stack) \div 9][Top(st.stack) % 9] + 1)

\* countSolutions: one call entered, or one return taken by the caller,
\* which always takes its value back and passes finished on
countNext(st) ==
    IF st.mode = "call"
    THEN LET pos == FirstEmpty(st.board)
         IN  IF pos = 81
             THEN [st EXCEPT !.count = st.count + 1, !.mode = "return",
                             !.finished = st.count + 1 > 1]
             ELSE countLoop(st.board, Append(st.stack, pos), st.count, 1)
    ELSE LET pos == Top(st.stack)
             undone == Put(st.board, pos, 0)
         IN  IF st.finished
             THEN [st EXCEPT !.board = undone, !.stack = Pop(st.stack)]
             ELSE countLoop(undone, st.stack, st.count,
                            st.board[pos \div 9][pos % 9] + 1)

countReturned(st) == st.mode # "call" /\ st.stack = << >>

RECURSIVE countRun(_, _)
countRun(st, k) ==
    IF countReturned(st) THEN st
    ELSE IF k = 0 THEN countNext(st)
    ELSE countRun(countRun(st, k - 1), k - 1)

RECURSIVE countUntilReturned(_, _)
countUntilReturned(st, k) ==
    IF countReturned(st) THEN st
    ELSE countUntilReturned(countRun(st, k), k + 1)

countResult(end) ==
    [finished |-> end.finished, board |-> end.board, count |-> end.count]

\* countSolutions(board, count): returns finished, and leaves *board, *count
countSolutions(board, count) ==
    countResult(countUntilReturned(
                    [board |-> board, stack |-> << >>, count |-> count,
                     mode |-> "call", finished |-> FALSE], 0))


(***************************************************************************)
(* solveRandom.  A waiting call keeps its cell, its shuffled numbers and   *)
(* the index k of the number standing in the cell.  A machine step takes   *)
(* the outcome of rand.Shuffle for the call it enters.                     *)
(***************************************************************************)
Frame(pos, numbers, k) == [pos |-> pos, numbers |-> numbers, k |-> k]

\* the least index from which "for _, value := range numbers" passes its
\* IsValidMove test when it goes on at index from; 10 when it runs out
NextIndex(board, pos, numbers, from) ==
    LET valid == {k \in from..9 :
                     IsValidMove(board, pos \div 9, pos % 9, numbers[k])}
    IN  IF valid = {} THEN 10 ELSE SetMin(valid)

\* randomLoop that places the next number without the IsValidMove test
randomLoopUnchecked(board, stack, pos, numbers, from) ==
    IF from > 9
    THEN [board |-> board, stack |-> stack, mode |-> "false"]
    ELSE [board |-> Put(board, pos, numbers[from]),
          stack |-> Append(stack, Frame(pos, numbers, from)), mode |-> "call"]

\* the loop over numbers of the call for pos goes on at index from, with
\* stack holding the calls that wait below it
randomLoop(board, stack, pos, numbers, from) ==
    IF NextIndex(board, pos, numbers, from) > 9
    THEN [board |-> board, stack |-> stack, mode |-> "false"]
    ELSE [board |-> Put(board, pos,
                        numbers[NextIndex(board, pos, numbers, from)]),
          stack |-> Append(stack, Frame(pos, numbers,
                               NextIndex(board, pos, numbers, from))),
          mode |-> "call"]

\* solveRandom: one call entered, with numbers as rand.Shuffle left them,
\* or one return taken by the waiting caller
randomNext(st, numbers) ==
    IF st.mode = "call"
    THEN IF FirstEmpty(st.board) = 81 THEN [st EXCEPT !.mode = "true"]
         ELSE randomLoop(st.board, st.stack, FirstEmpty(st.board), numbers, 1)
    ELSE IF st.mode = "true"
         THEN [st EXCEPT !.stack = Pop(st.stack)]
         ELSE randomLoop(Put(st.board, Top(st.stack).pos, 0), Pop(st.stack),
                         Top(st.stack).pos, Top(st.stack).numbers,
                         Top(st.stack).k + 1)

\* the outcomes of rand.Shuffle the runs take
ShuffleOutcomes ==
    << <<1, 2, 3, 4, 5, 6, 7, 8, 9>>, <<9, 8, 7, 6, 5, 4, 3, 2, 1>>,
       <<5, 3, 8, 1, 9, 2, 7, 4, 6>> >>

\* the calls for the first MaxShuffled cells take any of the outcomes
MaxShuffled == 4

\* a run's outcomes: one for each of the first cells, one for all others
Seeds ==
    [first : [1..MaxShuffled -> 1..Len(ShuffleOutcomes)],
     rest : 1..Len(ShuffleOutcomes)]

\* the outcome of rand.Shuffle in the call the machine enters next
Shuffled(seed, st) ==
    ShuffleOutcomes[IF FirstEmpty(st.board) < MaxShuffled
                    THEN seed.first[FirstEmpty(st.board) + 1]
                    ELSE seed.rest]

RECURSIVE randomRun(_, _, _)
randomRun(st, k, seed) ==
    IF solveReturned(st) THEN st
    ELSE IF k = 0 THEN randomNext(st, Shuffled(seed, st))
    ELSE randomRun(randomRun(st, k - 1, seed), k - 1, seed)

RECURSIVE randomUntilReturned(_, _, _)
randomUntilReturned(st, k, seed) ==
    IF solveReturned(st) THEN st
    ELSE randomUntilReturned(randomRun(st, k, seed), k + 1, seed)

\* solveRandom(board): the result, and *board as the call leaves it
solveRandom(board, seed) ==
    solveResult(randomUntilReturned(
                    [board |-> board, stack |-> << >>, mode |-> "call"], 0,
                    seed))

(***************************************************************************)
(* IsSolved and CalculateScore                                             *)
(***************************************************************************)
\* IsSolved: no cell of finalBoard differs from solutionBoard
IsSolved(finalBoard, solutionBoard) ==
    \A i \in Idx : \A j \in Idx : finalBoard[i][j] = solutionBoard[i][j]

\* CalculateScore that takes a filled cell for correct when IsValidMove
\* accepts its value on the final board
CalculateScoreByValidity(initialBoard, finalBoard, solutionBoard) ==
    10 * Cardinality({pos \in Positions :
            /\ initialBoard[pos \div 9][pos % 9] = 0
            /\ finalBoard[pos \div 9][pos % 9] # 0
            /\ IsValidMove(finalBoard, pos \div 9, pos % 9,
                           finalBoard[pos \div 9][pos % 9])})

\* the loops of CalculateScore from cell pos on: what they add to score
RECURSIVE ScoreFrom(_, _, _, _)
ScoreFrom(initialBoard, finalBoard, solutionBoard, pos) ==
    IF pos >= 81 THEN 0
    ELSE LET i == pos \div 9
             j == pos % 9
         IN  (IF /\ initialBoard[i][j] = 0 /\ finalBoard[i][j] # 0
                 /\ finalBoard[i][j] = solutionBoard[i][j]
              THEN 10 ELSE 0)
             + ScoreFrom(initialBoard, finalBoard, solutionBoard, pos + 1)

CalculateScore(initialBoard, finalBoard, solutionBoard) ==
    ScoreFrom(initialBoard, finalBoard, solutionBoard, 0)

(***************************************************************************)
(* Step and hint functions.  A Go result pair "move, err" is the record    *)
(* [move, err]: err = "" stands for a nil error, NilMove for a nil move.   *)
(***************************************************************************)
NilMove == Move(-1, -1, 0, "")

Found(move) == [move |-> move, err |-> ""]

Failed(msg) == [move |-> NilMove, err |-> msg]

\* SolveStepFrom that reports its cell counting rows and columns from 1
SolveStepFromOneBased(board, nakedSingles, hiddenSingles, solved, pos) ==
    IF Len(nakedSingles) > 0
    THEN Found([nakedSingles[1] EXCEPT !.Row = @ + 1, !.Col = @ + 1])
    ELSE IF Len(hiddenSingles) > 0
    THEN Found([hiddenSingles[1] EXCEPT !.Row = @ + 1, !.Col = @ + 1])
    ELSE IF ~solved.success THEN Failed("puzzle cannot be solved")
    ELSE IF pos < 81
         THEN Found(Move((pos \div 9) + 1, (pos % 9) + 1,
                         solved.board[pos \div 9][pos % 9], "Advanced Step"))
         ELSE Failed("could not fill any cell")

\* SolveStepFrom that answers with the last cell when no cell is empty
SolveStepFromLastCell(board, nakedSingles, hiddenSingles, solved, pos) ==
    IF Len(nakedSingles) > 0 THEN Found(nakedSingles[1])
    ELSE IF Len(hiddenSingles) > 0 THEN Found(hiddenSingles[1])
    ELSE IF ~solved.success THEN Failed("puzzle cannot be solved")
    ELSE IF pos < 81
         THEN Found(Move(pos \div 9, pos % 9,
                         solved.board[pos \div 9][pos % 9], "Advanced Step"))
         ELSE Found(Move(8, 8, solved.board[8][8], "Advanced Step"))

\* SolveStep once its three searches have returned: the first naked
\* single, else the first hidden single, else the first empty cell with
\* the solved board's value
SolveStepFrom(board, nakedSingles, hiddenSingles, solved, pos) ==
    IF Len(nakedSingles) > 0 THEN Found(nakedSingles[1])
    ELSE IF Len(hiddenSingles) > 0 THEN Found(hiddenSingles[1])
    ELSE IF ~solved.success THEN Failed("puzzle cannot be solved")
    ELSE IF pos < 81
         THEN Found(Move(pos \div 9, pos % 9,
                         solved.board[pos \div 9][pos % 9], "Advanced Step"))
         ELSE Failed("could not fill any cell")

\* SolveStep that looks for hidden singles before naked singles
SolveStepHiddenFirst(board) ==
    SolveStepFrom(board, FindHiddenSingles(board), FindNakedSingles(board),
                  SolvePuzzle(board), FirstEmpty(board))

SolveStep(board) ==
    SolveStepFrom(board, FindNakedSingles(board), FindHiddenSingles(board),
                  SolvePuzzle(board), FirstEmpty(board))

\* FindSolvableCell returns SolveStep's result unchanged
FindSolvableCell(board) == SolveStep(board)

\* GetHint answering with a candidate of the cell (the greatest) instead of
\* the solved board's value
GetHintByCandidate(board, row, col) ==
    LET candidates == GetCandidates(board, row, col)
    IN  IF board[row][col] # 0 THEN Failed("cell is already filled")
        ELSE IF Len(candidates) = 0
             THEN Failed("puzzle cannot be solved from current state")
        ELSE Found(Move(row, col, candidates[Len(candidates)], "Hint"))

\* GetHintFrom without the test for a filled cell
GetHintFromAnyCell(board, row, col, solved, step) ==
    IF ~solved.success
    THEN Failed("puzzle cannot be solved from current state")
    ELSE IF step.err = "" /\ step.move.Row = row /\ step.move.Col = col
         THEN step
    ELSE Found(Move(row, col, solved.board[row][col], "Hint"))

\* GetHint once SolvePuzzle and SolveStep have returned
GetHintFrom(board, row, col, solved, step) ==
    IF board[row][col] # 0 THEN Failed("cell is already filled")
    ELSE IF ~solved.success
         THEN Failed("puzzle cannot be solved from current state")
    ELSE IF step.err = "" /\ step.move.Row = row /\ step.move.Col = col
         THEN step
    ELSE Found(Move(row, col, solved.board[row][col], "Hint"))

GetHint(board, row, col) ==
    GetHintFrom(board, row, col, SolvePuzzle(board), SolveStep(board))


(***************************************************************************)
(* State                                                                   *)
(***************************************************************************)
VARIABLES
    board,        \* engine calls: the Board value passed to the call
    call,         \* engine calls: the call made on board and its result
    difficulty,   \* GeneratePuzzle: its argument
    vacantTiles,  \* GeneratePuzzle: cells still to clear
    solved,       \* GeneratePuzzle: the fully solved board
    puzzle,       \* GeneratePuzzle: the board being emptied
    positions,    \* GeneratePuzzle: rand.Perm(81), as far as its order is fixed
    visited,      \* GeneratePuzzle: the positions the range loop has passed
    gpc,          \* GeneratePuzzle: "loop" in the removal loop, "done" returned
    text,         \* conversions: the string passed to StringToBoard
    grid,         \* conversions: the Board passed to BoardToString
    conv,         \* conversions: the last conversion made and its result
    gameResult,   \* handlers: the stored models.GameResult of the game
    userStats,    \* handlers: total_points and games_played of the stored user
    request,      \* handlers: the request received last
    resp,         \* handlers: the response to the last request
    last,         \* handlers: the request served last, and how it ended
    prev,         \* handlers: the request served before last
    hintState     \* Game.js: the hintState of the Game component

engineVars == <<board, call>>

genVars == <<difficulty, vacantTiles, solved, puzzle, positions, visited, gpc>>

codecVars == <<text, grid, conv>>

handlerVars ==
    <<gameResult, userStats, request, resp, last, prev, hintState>>

vars ==
    <<board, call, difficulty, vacantTiles, solved, puzzle, positions, visited,
      gpc, text, grid, conv, gameResult, userStats, request, resp, last,
      prev, hintState>>

\* a specification leaves the variables of the other parts at rest
NoCall ==
    [fn |-> "none", row |-> -1, col |-> -1, value |-> 0, ok |-> FALSE,
     board |-> EmptyBoard, move |-> NilMove, err |-> "", list |-> << >>,
     count |-> 0, args |-> << >>]

IdleEngine ==
    /\ board = EmptyBoard
    /\ call = NoCall

IdleGen ==
    /\ difficulty = "none"
    /\ vacantTiles = 0
    /\ solved = EmptyBoard
    /\ puzzle = EmptyBoard
    /\ positions = << >>
    /\ visited = {}
    /\ gpc = "idle"

NoConversion == [fn |-> "none", outcome |-> "none", board |-> EmptyBoard, text |-> << >>]

IdleCodec ==
    /\ text = << >>
    /\ grid = EmptyBoard
    /\ conv = NoConversion

NoStep == [mode |-> "none", ok |-> FALSE, row |-> -1, col |-> -1]

NoResponse == [status |-> 0, body |-> [error |-> ""]]

\* a models.GameResult as StartGame creates it: the fields it sets, and
\* the zero value of the others (CompletedAt: FALSE is nil)
NewGameResult(userID, mode, startingGrid) ==
    [UserID |-> userID, Mode |-> mode, FinalGrid |-> startingGrid,
     TimeSeconds |-> 0, UsedHints |-> FALSE, UsedAutoSolve |-> FALSE,
     CompletedAt |-> FALSE, Completed |-> FALSE, Score |-> 0,
     Disqualified |-> FALSE]

NoUser == [total_points |-> 0, games_played |-> 0]

NoRequest == [kind |-> "none", body |-> << >>]

\* const [hintState, setHintState] = useState({step: 'none',
\* highlightedCell: null}); << >> is null, << row, col >> is {row, col}
NoHint == [step |-> "none", highlightedCell |-> << >>]

IdleHandlers ==
    /\ gameResult = NewGameResult(0, "", << >>)
    /\ userStats = NoUser
    /\ request = NoRequest
    /\ resp = NoResponse
    /\ last = NoStep
    /\ prev = NoStep
    /\ hintState = NoHint

(***************************************************************************)
(* Grids the runs start from.  SolvedDigits is a grid solveRandom can      *)
(* return from the empty board (it takes the listed digit first at every   *)
(* branch); it is the solved grid of GeneratePuzzle in these runs.         *)
(***************************************************************************)
SolvedDigits ==
    << 5,3,4,6,7,8,9,1,2,   6,7,2,1,9,5,3,4,8,   1,9,8,3,4,2,5,6,7,
       8,5,9,7,6,1,4,2,3,   4,2,6,8,5,3,7,9,1,   7,1,3,9,2,4,8,5,6,
       9,6,1,5,3,7,2,8,4,   2,8,7,4,1,9,6,3,5,   3,4,5,2,8,6,1,7,9 >>

GridOf(digits) == [i \in Idx |-> [j \in Idx |-> digits[9 * i + j + 1]]]

SolvedGrid == GridOf(SolvedDigits)

(***************************************************************************)
(* GeneratePuzzle.  A run starts where solveRandom has returned the solved *)
(* board, and makes one pass of the removal loop per step.  rand.Perm(81)  *)
(* is any permutation that begins with PermPrefix of the difficulty, in    *)
(* that order, and goes on with the cells of PermTail in any order (the    *)
(* passes after those are not followed), or, for Hard, the permutation     *)
(* StuckPerm: its first 53 cells can be cleared, and none of the 28 after  *)
(* them can.                                                               *)
(***************************************************************************)
Easy == "easy"

Medium == "medium"

Hard == "hard"

Difficulties == {Easy, Medium, Hard}

\* the switch on difficulty
TargetVacant(d) ==
    CASE d = Easy -> 35
      [] d = Medium -> 45
      [] d = Hard -> 54

PermPrefix(d) ==
    CASE d = Easy ->
           << 53, 19, 77, 13, 22, 18, 29, 25, 45, 34, 9, 5, 21, 75, 7, 61,
              67, 55, 59, 36, 32, 58, 69, 46, 50, 70, 20, 48, 78, 80, 14 >>
      [] d = Medium ->
           << 19, 5, 75, 35, 71, 58, 54, 29, 0, 33, 52, 42, 45, 26, 2, 53,
              40, 48, 8, 68, 44, 57, 28, 34, 77, 63, 64, 15, 62, 1, 14, 56,
              38, 79, 55, 22, 80, 67, 17, 43, 21, 50 >>
      [] d = Hard ->
           << 34, 32, 26, 67, 43, 42, 65, 36, 12, 11, 1, 71, 8, 68, 40, 22,
              52, 9, 41, 77, 78, 20, 6, 5, 75, 25, 72, 80, 73, 56, 51, 70,
              14, 15, 29, 62, 50, 58, 27, 38, 53, 16, 44, 10, 74, 28, 49,
              64, 59, 61, 47 >>

PermTail(d) == IF d = Easy THEN {0, 3, 4, 30, 31, 74} ELSE {3, 4, 30, 31}

StuckPerm ==
    << 23, 66, 69, 68, 11, 58, 25, 24, 2, 75, 16, 26, 31, 42, 33, 18, 32, 40,
       38, 35, 80, 65, 6, 47, 70, 34, 54, 8, 57, 61, 53, 56, 5, 59, 62, 1, 39,
       50, 64, 19, 45, 46, 63, 77, 15, 72, 67, 21, 27, 9, 28, 36, 43,
       0, 3, 4, 7, 10, 12, 13, 14, 17, 20, 22, 29, 30, 37, 41, 44, 48, 49, 51,
       52, 55, 60, 71, 73, 74, 76, 78, 79 >>

Perms(d) == IF d = Hard THEN {PermPrefix(d), StuckPerm} ELSE {PermPrefix(d)}

\* the positions the range loop can hand out next
NextPositions ==
    IF Cardinality(visited) < Len(positions)
    THEN {positions[Cardinality(visited) + 1]}
    ELSE PermTail(difficulty) \ visited

InitGen ==
    /\ difficulty \in Difficulties
    /\ vacantTiles = TargetVacant(difficulty)
    /\ solved = SolvedGrid
    /\ puzzle = solved
    /\ positions \in Perms(difficulty)
    /\ visited = {}
    /\ gpc = "loop"
    /\ IdleEngine
    /\ IdleCodec
    /\ IdleHandlers

\* RemoveTile without the test that breaks out of the loop
RemoveTileWithoutBreak ==
    /\ gpc = "loop"
    /\ \E pos \in NextPositions :
          LET row == pos \div 9
              col == pos % 9
              cleared == [puzzle EXCEPT ![row][col] = 0]
          IN  /\ visited' = visited \cup {pos}
              /\ IF countSolutions(cleared, 0).count # 1
                 THEN /\ puzzle' = puzzle
                      /\ UNCHANGED vacantTiles
                 ELSE /\ puzzle' = cleared
                      /\ vacantTiles' = vacantTiles - 1
    /\ UNCHANGED <<difficulty, solved, positions, gpc>>

\* SolutionCount that stops at the first solution found
SolutionFound(temp) == IF solve(temp).ok THEN 1 ELSE 0

\* the number countSolutions leaves in solutionCount, started at 0 on temp
SolutionCount(temp) == countSolutions(temp, 0).count

\* one pass of "for _, pos := range positions" that gets past the break
RemoveTile ==
    /\ gpc = "loop"
    /\ vacantTiles > 0
    /\ \E pos \in NextPositions :
          LET row == pos \div 9
              col == pos % 9
              backup == puzzle[row][col]
              cleared == [puzzle EXCEPT ![row][col] = 0]
              solutionCount == SolutionCount(cleared)
          IN  /\ visited' = visited \cup {pos}
              /\ IF solutionCount # 1
                 THEN /\ puzzle' = [cleared EXCEPT ![row][col] = backup]
                      /\ UNCHANGED vacantTiles
                 ELSE /\ puzzle' = cleared
                      /\ vacantTiles' = vacantTiles - 1
    /\ UNCHANGED <<difficulty, solved, positions, gpc>>

\* the loop ends, by the break or with the positions used up, and the
\* function returns puzzle, solved, nil
ReturnPuzzle ==
    /\ gpc = "loop"
    /\ vacantTiles <= 0 \/ visited = Positions
    /\ gpc' = "done"
    /\ UNCHANGED <<difficulty, vacantTiles, solved, puzzle, positions, visited>>

NextGen ==
    \/ RemoveTile /\ UNCHANGED <<engineVars, codecVars, handlerVars>>
    \/ ReturnPuzzle /\ UNCHANGED <<engineVars, codecVars, handlerVars>>

SpecGen == InitGen /\ [][NextGen]_vars


(***************************************************************************)
(* Engine calls.  The handlers pass the engine whatever grid the request   *)
(* carries (current_grid), so the boards are the solved grid with the      *)
(* cells of EntryCells emptied, kept, or overwritten by one of the two     *)
(* digits after the cell's own (9 wraps to 1): at most MaxEmpty empty      *)
(* cells and at most MaxWrong overwritten ones.                            *)
(* A run makes one call on its board.                                      *)
(* Cells 3, 4, 30, 31 are the corners of a rectangle holding 6 7 / 7 6.    *)
(* AmbiguousBoards are the solved grid with the cells of two overlapping,  *)
(* and of two separate, such rectangles emptied: boards with 3 and with 4  *)
(* legal completions.                                                      *)
(***************************************************************************)
MaxEmpty == 4

MaxWrong == 1

EntryCells == {3, 4, 30, 31, 74}

OtherDigits(v) == {(v % 9) + 1, ((v + 1) % 9) + 1}

SetCells(b, f) ==
    [i \in Idx |-> [j \in Idx |->
        IF (9 * i + j) \in DOMAIN f THEN f[9 * i + j] ELSE b[i][j]]]

EngineBoards ==
    { SetCells(SolvedGrid, f) :
        f \in { g \in [EntryCells -> 0..9] :
                  /\ \A p \in EntryCells :
                        g[p] \in {0, SolvedDigits[p + 1]}
                                   \cup OtherDigits(SolvedDigits[p + 1])
                  /\ Cardinality({p \in EntryCells : g[p] = 0}) <= MaxEmpty
                  /\ Cardinality({p \in EntryCells :
                        g[p] # 0 /\ g[p] # SolvedDigits[p + 1]}) <= MaxWrong } }

AmbiguousBoards ==
    { [i \in Idx |-> [j \in Idx |->
         IF (9 * i + j) \in E THEN 0 ELSE SolvedGrid[i][j]]] :
        E \in { {22, 23, 49, 50, 48, 66, 68},
                {3, 4, 30, 31, 22, 23, 49, 50} } }

InitEngine ==
    /\ board \in EngineBoards \cup AmbiguousBoards
    /\ call = NoCall
    /\ IdleGen
    /\ IdleCodec
    /\ IdleHandlers

\* the record of a call: SolvePuzzle's pair, or a "move, err" pair
Solved(res) ==
    [NoCall EXCEPT !.fn = "SolvePuzzle", !.ok = res.success,
                   !.board = res.board]

Stepped(fn, row, col, res) ==
    [NoCall EXCEPT !.fn = fn, !.row = row, !.col = col, !.ok = (res.err = ""),
                   !.move = res.move, !.err = res.err]

\* solutionCount := 0; finished := countSolutions(&board, &solutionCount)
Counted(res) ==
    [NoCall EXCEPT !.fn = "countSolutions", !.ok = res.finished,
                   !.board = res.board, !.count = res.count]

CallCountSolutions ==
    /\ call.fn = "none"
    /\ call' = Counted(countSolutions(board, 0))
    /\ UNCHANGED board

CallSolvePuzzle ==
    /\ call.fn = "none"
    /\ call' = Solved(SolvePuzzle(board))
    /\ UNCHANGED board

CallSolveStep ==
    /\ call.fn = "none"
    /\ call' = Stepped("SolveStep", -1, -1, SolveStep(board))
    /\ UNCHANGED board

CallFindSolvableCell ==
    /\ call.fn = "none"
    /\ call' = Stepped("FindSolvableCell", -1, -1, FindSolvableCell(board))
    /\ UNCHANGED board

CallGetHint ==
    /\ call.fn = "none"
    /\ \E p \in EntryCells :
          call' = Stepped("GetHint", p \div 9, p % 9,
                          GetHint(board, p \div 9, p % 9))
    /\ UNCHANGED board

NextEngine ==
    \/ CallCountSolutions /\ UNCHANGED <<genVars, codecVars, handlerVars>>
    \/ CallSolvePuzzle /\ UNCHANGED <<genVars, codecVars, handlerVars>>
    \/ CallSolveStep /\ UNCHANGED <<genVars, codecVars, handlerVars>>
    \/ CallFindSolvableCell /\ UNCHANGED <<genVars, codecVars, handlerVars>>
    \/ CallGetHint /\ UNCHANGED <<genVars, codecVars, handlerVars>>

SpecEngine == InitEngine /\ [][NextEngine]_vars


(***************************************************************************)
(* A puzzle GeneratePuzzle returns for Easy: the cells of the Easy prefix  *)
(* and the cells 3, 4, 30, 74 cleared                                      *)
(***************************************************************************)
EasyCleared ==
    {PermPrefix(Easy)[k] : k \in 1..Len(PermPrefix(Easy))} \cup {3, 4, 30, 74}

EasyPuzzle ==
    [i \in Idx |-> [j \in Idx |->
        IF (9 * i + j) \in EasyCleared THEN 0 ELSE SolvedGrid[i][j]]]

(***************************************************************************)
(* Conversions.  A run converts one string or one board.  The strings are  *)
(* the 81 digits of the solved grid or of EasyPuzzle with up to MaxEdits   *)
(* of the bytes at EditPlaces replaced by a byte of EditBytes, as they     *)
(* are, cut to 80 bytes, or with one more byte; the boards are the same    *)
(* two grids with up to MaxEdits of the cells at EditPlaces set to a value *)
(* of EditValues.                                                          *)
(***************************************************************************)
MaxEdits == 1

EditPlaces == {0, 40, 80}

\* '/', '0', '9', ':', 'a', ' ' and the byte 200
EditBytes == {47, 48, 57, 58, 97, 32, 200}

EditValues == {-1, 0, 9, 10, 80, 255}

Edits(values) ==
    { f \in [EditPlaces -> values \cup {-2}] :
        Cardinality({p \in EditPlaces : f[p] # -2}) <= MaxEdits }

DigitText(b) == [k \in 1..81 |-> b[(k - 1) \div 9][(k - 1) % 9] + 48]

EditedText(t, f) ==
    [k \in 1..81 |-> IF (k - 1) \in EditPlaces /\ f[k - 1] # -2
                     THEN f[k - 1] ELSE t[k]]

CodecTexts ==
    LET exact == { EditedText(DigitText(b), f) :
                      b \in {SolvedGrid, EasyPuzzle}, f \in Edits(EditBytes) }
    IN  exact \cup { SubSeq(t, 1, 80) : t \in exact }
              \cup { Append(t, 49) : t \in exact }

CodecBoards ==
    { [i \in Idx |-> [j \in Idx |->
         IF (9 * i + j) \in EditPlaces /\ f[9 * i + j] # -2
         THEN f[9 * i + j] ELSE b[i][j]]] :
        b \in {SolvedGrid, EasyPuzzle}, f \in Edits(EditValues) }

InitCodec ==
    /\ \/ text \in CodecTexts /\ grid = EmptyBoard
       \/ text = << >> /\ grid \in CodecBoards
    /\ conv = NoConversion
    /\ IdleEngine
    /\ IdleGen
    /\ IdleHandlers

CallStringToBoard ==
    /\ conv.fn = "none"
    /\ conv' = IF StringToBoardPanics(text)
               THEN [fn |-> "StringToBoard", outcome |-> "panic",
                     board |-> EmptyBoard, text |-> << >>]
               ELSE [fn |-> "StringToBoard", outcome |-> "board",
                     board |-> StringToBoard(text), text |-> << >>]
    /\ UNCHANGED <<text, grid>>

CallBoardToString ==
    /\ conv.fn = "none"
    /\ conv' = [fn |-> "BoardToString", outcome |-> "string",
                board |-> EmptyBoard, text |-> BoardToString(grid)]
    /\ UNCHANGED <<text, grid>>

NextCodec ==
    \/ CallStringToBoard /\ UNCHANGED <<engineVars, genVars, handlerVars>>
    \/ CallBoardToString /\ UNCHANGED <<engineVars, genVars, handlerVars>>

SpecCodec == InitCodec /\ [][NextCodec]_vars

(***************************************************************************)
(* Calls of the candidate and single-finding functions and of             *)
(* CalculateScore.  A run makes one call on its board; GetCandidates may   *)
(* then be called once more with the same arguments.  The boards are the   *)
(* solved grid and two puzzles GeneratePuzzle returns, each with up to     *)
(* MaxEdits of the cells at EditPlaces emptied or overwritten by a digit   *)
(* of QueryDigits.  CalculateScore gets the board as finalBoard, a puzzle  *)
(* or the empty board as initialBoard, and as solutionBoard the solved     *)
(* grid or SwappedGrid, the other legal grid that has the same digits      *)
(* outside the rectangle 3, 4, 30, 31.                                     *)
(***************************************************************************)
\* the cells GeneratePuzzle clears for Hard when the range loop takes 3, 4
\* and 30 after the prefix
HardCleared ==
    {PermPrefix(Hard)[k] : k \in 1..Len(PermPrefix(Hard))} \cup {3, 4, 30}

HardPuzzle ==
    [i \in Idx |-> [j \in Idx |->
        IF (9 * i + j) \in HardCleared THEN 0 ELSE SolvedGrid[i][j]]]

QueryDigits == {0, 1, 9}

SwappedGrid ==
    [i \in Idx |-> [j \in Idx |->
        IF (9 * i + j) \in {3, 4, 30, 31}
        THEN 13 - SolvedGrid[i][j] ELSE SolvedGrid[i][j]]]

QueryBoards ==
    { [i \in Idx |-> [j \in Idx |->
         IF (9 * i + j) \in EditPlaces /\ f[9 * i + j] # -2
         THEN f[9 * i + j] ELSE b[i][j]]] :
        b \in {SolvedGrid, EasyPuzzle, HardPuzzle}, f \in Edits(QueryDigits) }

InitQuery ==
    /\ board \in QueryBoards
    /\ call = NoCall
    /\ IdleGen
    /\ IdleCodec
    /\ IdleHandlers

\* the record of a call that returns a bool, or a slice
Tested(row, col, value, res) ==
    [NoCall EXCEPT !.fn = "IsValidMove", !.row = row, !.col = col,
                   !.value = value, !.ok = res]

Listed(fn, row, col, res, n) ==
    [NoCall EXCEPT !.fn = fn, !.row = row, !.col = col, !.list = res,
                   !.count = n]

CallIsValidMove ==
    /\ call.fn = "none"
    /\ \E row \in Idx, col \in Idx, value \in Digits :
          call' = Tested(row, col, value, IsValidMove(board, row, col, value))
    /\ UNCHANGED board

\* the board is passed by value: the caller's board is as it was
CallGetCandidates ==
    /\ call.fn = "none"
    /\ \E row \in Idx, col \in Idx :
          call' = Listed("GetCandidates", row, col,
                         GetCandidates(board, row, col), 1)
    /\ UNCHANGED board

\* the same call made a second time
CallGetCandidatesAgain ==
    /\ call.fn = "GetCandidates"
    /\ call.count = 1
    /\ call' = Listed("GetCandidates", call.row, call.col,
                      GetCandidates(board, call.row, call.col), 2)
    /\ UNCHANGED board

CallFindNakedSingles ==
    /\ call.fn = "none"
    /\ call' = Listed("FindNakedSingles", -1, -1, FindNakedSingles(board), 1)
    /\ UNCHANGED board

CallFindHiddenSingles ==
    /\ call.fn = "none"
    /\ call' = Listed("FindHiddenSingles", -1, -1, FindHiddenSingles(board), 1)
    /\ UNCHANGED board

Scored(initialBoard, solutionBoard, score) ==
    [NoCall EXCEPT !.fn = "CalculateScore",
                   !.args = <<initialBoard, solutionBoard>>, !.count = score]

CallCalculateScore ==
    /\ call.fn = "none"
    /\ \E initialBoard \in {EasyPuzzle, HardPuzzle, EmptyBoard},
          solutionBoard \in {SolvedGrid, SwappedGrid} :
          call' = Scored(initialBoard, solutionBoard,
                         CalculateScore(initialBoard, board, solutionBoard))
    /\ UNCHANGED board

NextQuery ==
    \/ CallCalculateScore /\ UNCHANGED <<genVars, codecVars, handlerVars>>
    \/ CallIsValidMove /\ UNCHANGED <<genVars, codecVars, handlerVars>>
    \/ CallGetCandidates /\ UNCHANGED <<genVars, codecVars, handlerVars>>
    \/ CallGetCandidatesAgain /\ UNCHANGED <<genVars, codecVars, handlerVars>>
    \/ CallFindNakedSingles /\ UNCHANGED <<genVars, codecVars, handlerVars>>
    \/ CallFindHiddenSingles /\ UNCHANGED <<genVars, codecVars, handlerVars>>

SpecQuery == InitQuery /\ [][NextQuery]_vars

(***************************************************************************)
(* The handlers of GameHandler.  One game result is stored, for user Owner *)
(* and the puzzle StartGame saved with it: EasyPuzzle and the solved grid. *)
(* The game is in play or in learn mode.                                   *)
(*                                                                         *)
(* GetHint.  A request carries what the handler reads: whether the body    *)
(* decodes, the game id, the authenticated user, mode, row and col (a Go   *)
(* *int: << >> is nil, << n >> points to n) and current_grid.  The grids   *)
(* sent are the solved grid with some of HintCells emptied, and the empty  *)
(* string of a request that leaves the field out.                          *)
(***************************************************************************)
GameID == 1

Owner == 1

HintCells == {3, 4}

HintGrids ==
    { BoardToString([i \in Idx |-> [j \in Idx |->
          IF (9 * i + j) \in E THEN 0 ELSE SolvedGrid[i][j]]]) :
        E \in SUBSET HintCells } \cup { << >> }

HintRequest(decodes, id, user, mode, row, col, currentGrid) ==
    [Decodes |-> decodes, GameResultID |-> id, UserID |-> user, Mode |-> mode,
     Row |-> row, Col |-> col, CurrentGrid |-> currentGrid]

\* the rows and cols a fill_cell request comes with
HintTargets ==
    { << << >>, << >> >>, << << 0 >>, << >> >> }
        \cup { << << p \div 9 >>, << p % 9 >> >> : p \in HintCells }

\* requests that are turned away before the grid is read, and requests of
\* the owner for the stored game in each mode
HintRequests ==
    { HintRequest(FALSE, GameID, Owner, "find_cell", << >>, << >>, << >>),
      HintRequest(TRUE, GameID + 1, Owner, "find_cell", << >>, << >>, << >>),
      HintRequest(TRUE, GameID, Owner + 1, "find_cell", << >>, << >>, << >>),
      HintRequest(TRUE, GameID, Owner, "hint", << >>, << >>,
                  BoardToString(SolvedGrid)) }
    \cup
    { HintRequest(TRUE, GameID, Owner, "find_cell", << >>, << >>, g) :
        g \in HintGrids }
    \cup
    { HintRequest(TRUE, GameID, Owner, "fill_cell", rc[1], rc[2], g) :
        rc \in HintTargets, g \in HintGrids }

\* the JSON object json.NewEncoder(w).Encode(hint) writes for a Move
MoveJSON(move) ==
    [row |-> move.Row, col |-> move.Col, value |-> move.Value,
     reason |-> move.Reason]

HttpError(code, msg) == [status |-> code, body |-> [error |-> msg]]

\* a panic in a handler: net/http recovers it and drops the connection
Aborted == [status |-> -1, body |-> [error |-> "panic"]]

Step(mode, ok, row, col) == [mode |-> mode, ok |-> ok, row |-> row, col |-> col]

PlayMode == "play"

LearnMode == "learn"

\* gameResult.Puzzle, loaded by Preload("Puzzle")
Puzzle ==
    [StartingGrid |-> BoardToString(EasyPuzzle),
     Solution |-> BoardToString(SolvedGrid)]

InitHandlers ==
    /\ \E mode \in {PlayMode, LearnMode} :
          gameResult = NewGameResult(Owner, mode, Puzzle.StartingGrid)
    /\ userStats = NoUser
    /\ request = NoRequest
    /\ resp = NoResponse
    /\ last = NoStep
    /\ prev = NoStep
    /\ hintState = NoHint
    /\ IdleEngine
    /\ IdleGen
    /\ IdleCodec

Served(response, stored, step) ==
    [resp |-> response, gameResult |-> stored, step |-> step]

Refused(req, code, msg) ==
    Served(HttpError(code, msg), gameResult, Step(req.Mode, FALSE, -1, -1))

\* mode find_cell, once FindSolvableCell has returned hint
FoundCell(req, hint) ==
    IF hint.err # "" THEN Refused(req, 400, hint.err)
    ELSE Served([status |-> 200, body |-> MoveJSON(hint.move)], gameResult,
                Step("find_cell", TRUE, hint.move.Row, hint.move.Col))

\* mode fill_cell, once GetHint has returned hint: the value goes into the
\* board, and the board into the stored game result
FilledCell(req, b, row, col, hint) ==
    IF hint.err # "" THEN Refused(req, 400, hint.err)
    ELSE Served([status |-> 200, body |-> MoveJSON(hint.move)],
                [gameResult EXCEPT
                    !.FinalGrid = BoardToString(
                                      [b EXCEPT ![row][col] = hint.move.Value]),
                    !.UsedHints = TRUE],
                Step("fill_cell", TRUE, row, col))

\* the handler from "board := sudoku.StringToBoard(req.CurrentGrid)" on
ServeMode(req, b) ==
    IF req.Mode = "find_cell" THEN FoundCell(req, FindSolvableCell(b))
    ELSE IF req.Mode = "fill_cell"
    THEN IF req.Row = << >> \/ req.Col = << >>
         THEN Refused(req, 400, "Row and Col are required for fill_cell mode")
         ELSE FilledCell(req, b, req.Row[1], req.Col[1],
                         GetHint(b, req.Row[1], req.Col[1]))
    ELSE Refused(req, 400, "Invalid mode. Use 'find_cell' or 'fill_cell'")

\* what GetHint does with a request: the response, the game result as it
\* is stored afterwards, and the step the request made in the hint protocol
ServeHint(req) ==
    IF ~req.Decodes THEN Refused(req, 400, "Invalid request body")
    ELSE IF req.GameResultID # GameID THEN Refused(req, 404, "Game not found")
    ELSE IF gameResult.UserID # req.UserID THEN Refused(req, 401, "Unauthorized")
    ELSE IF StringToBoardPanics(req.CurrentGrid)
    THEN Served(Aborted, gameResult, Step(req.Mode, FALSE, -1, -1))
    ELSE ServeMode(req, StringToBoard(req.CurrentGrid))

Respond(served) ==
    /\ resp' = served.resp
    /\ gameResult' = served.gameResult
    /\ last' = served.step
    /\ prev' = last

HandleGetHint ==
    /\ \E r \in HintRequests :
          /\ Respond(ServeHint(r))
          /\ request' = [kind |-> "hint", body |-> r]
    /\ UNCHANGED <<userStats, hintState>>

Next ==
    HandleGetHint /\ UNCHANGED <<engineVars, genVars, codecVars>>

Spec == InitHandlers /\ [][Next]_vars

(***************************************************************************)
(* The hint button of the client (Game.js, getHint), with the game in      *)
(* progress.  hintState is the component's state of that name.  The        *)
(* request is the owner's for the game on the screen; it carries no grid,  *)
(* so the handler reads the empty string or, in the version of the handler *)
(* that reads the stored game, gameResult.FinalGrid.  The request reaches  *)
(* the handler or is lost on the way; axios resolves on status 200 and     *)
(* rejects otherwise.                                                      *)
(***************************************************************************)
Highlighted(row, col) ==
    [step |-> "highlighted", highlightedCell |-> <<row, col>>]

\* what axios rejects with when no response arrives
Lost == [status |-> 0, body |-> [error |-> "Failed to get hint"]]

\* the grid the handler parses for a request of the client
ClientGrids == {<< >>, gameResult.FinalGrid}

\* the body getHint posts in the state it is in
ClientRequest(currentGrid) ==
    IF hintState.step = "none"
    THEN HintRequest(TRUE, GameID, gameResult.UserID, "find_cell", << >>,
                     << >>, currentGrid)
    ELSE HintRequest(TRUE, GameID, gameResult.UserID, "fill_cell",
                     <<hintState.highlightedCell[1]>>,
                     <<hintState.highlightedCell[2]>>, currentGrid)

\* the request as the handler serves it, or as it is lost
Delivered(r, arrives) ==
    IF arrives THEN ServeHint(r)
    ELSE Served(Lost, gameResult, Step(r.Mode, FALSE, -1, -1))

\* getHint with a catch block that leaves hintState alone
AfterHintWithoutReset(response) ==
    IF response.status # 200 THEN hintState
    ELSE IF hintState.step = "none"
    THEN Highlighted(response.body.row, response.body.col)
    ELSE NoHint

\* hintState once the request has resolved or has been rejected
AfterHint(response) ==
    IF response.status # 200 THEN NoHint
    ELSE IF hintState.step = "none"
    THEN Highlighted(response.body.row, response.body.col)
    ELSE NoHint

ClientGetHint ==
    /\ hintState.step \in {"none", "highlighted"}
    /\ \E currentGrid \in ClientGrids, arrives \in BOOLEAN :
          /\ Respond(Delivered(ClientRequest(currentGrid), arrives))
          /\ request' = [kind |-> "hint", body |-> ClientRequest(currentGrid)]
    /\ hintState' = AfterHint(resp')
    /\ UNCHANGED userStats

NextClient ==
    ClientGetHint /\ UNCHANGED <<engineVars, genVars, codecVars>>

SpecClient == InitHandlers /\ [][NextClient]_vars

(***************************************************************************)
(* SubmitGame.  A request carries the fields of SubmitGameRequest, whether *)
(* its body decodes and the authenticated user.  The grids submitted are   *)
(* the solution, the puzzle as it was handed out, the complete grid        *)
(* SwappedGrid that differs from the solution in four cells, and the empty *)
(* string.  h.db.Save succeeds or fails.  A run makes submissions until    *)
(* the user's games_played reaches MaxGames.                               *)
(***************************************************************************)
MaxGames == 2

SubmitGameRequest(decodes, id, userID, finalGrid, seconds, hints, auto) ==
    [Decodes |-> decodes, GameResultID |-> id, UserID |-> userID,
     FinalGrid |-> finalGrid, TimeSeconds |-> seconds,
     UsedHints |-> hints, UsedAutoSolve |-> auto]

SubmitGrids ==
    {Puzzle.Solution, Puzzle.StartingGrid, BoardToString(SwappedGrid), << >>}

SubmitRequests ==
    { SubmitGameRequest(FALSE, GameID, Owner, << >>, 0, FALSE, FALSE),
      SubmitGameRequest(TRUE, GameID + 1, Owner, Puzzle.Solution, 90, FALSE,
                        FALSE),
      SubmitGameRequest(TRUE, GameID, Owner + 1, Puzzle.Solution, 90, FALSE,
                        FALSE) }
    \cup
    { SubmitGameRequest(TRUE, GameID, Owner, g, 90, h, a) :
        g \in SubmitGrids, h \in BOOLEAN, a \in BOOLEAN }

\* what a submission leaves: the response, the game result and the user's
\* row as they are stored afterwards, and the step made
Submitted(response, stored, stats, ok) ==
    [resp |-> response, gameResult |-> stored, userStats |-> stats,
     step |-> Step("submit", ok, -1, -1)]

Rejected(code, msg) ==
    Submitted(HttpError(code, msg), gameResult, userStats, FALSE)

\* "if isCorrect { if gameResult.Mode == models.PlayMode && ..." without
\* the test of the two flags
ScoresWhenCorrect(r, isCorrect) ==
    isCorrect /\ gameResult.Mode = PlayMode

\* "if isCorrect { if gameResult.Mode == models.PlayMode &&
\* !req.UsedHints && !req.UsedAutoSolve {"
Scores(r, isCorrect) ==
    /\ isCorrect
    /\ gameResult.Mode = PlayMode
    /\ ~r.UsedHints
    /\ ~r.UsedAutoSolve

\* gameResult as the handler has it when it calls h.db.Save
Judged(r, isCorrect, score) ==
    [gameResult EXCEPT
        !.FinalGrid = r.FinalGrid,
        !.TimeSeconds = r.TimeSeconds,
        !.UsedHints = r.UsedHints,
        !.UsedAutoSolve = r.UsedAutoSolve,
        !.CompletedAt = TRUE,
        !.Completed = isCorrect,
        !.Score = IF Scores(r, isCorrect) THEN score ELSE @,
        !.Disqualified =
            IF gameResult.Mode = PlayMode /\ (r.UsedHints \/ r.UsedAutoSolve)
            THEN TRUE ELSE @]

\* the Updates of total_points and games_played
Credited(r, isCorrect, score) ==
    IF Scores(r, isCorrect)
    THEN [total_points |-> userStats.total_points + score,
          games_played |-> userStats.games_played + 1]
    ELSE userStats

\* the response map written after a successful Save
SubmitJSON(isCorrect, saved) ==
    [correct |-> isCorrect, score |-> saved.Score,
     disqualified |-> saved.Disqualified, time_seconds |-> saved.TimeSeconds]

\* from h.db.Save on
SaveAndRespond(isCorrect, judged, stats, dbSaves) ==
    IF ~dbSaves
    THEN Submitted(HttpError(500, "Failed to save game result"), gameResult,
                   stats, FALSE)
    ELSE Submitted([status |-> 200, body |-> SubmitJSON(isCorrect, judged)],
                   judged, stats, TRUE)

\* from "isCorrect := sudoku.IsSolved(...)" on
ValidateAndScore(r, dbSaves, isCorrect, score) ==
    SaveAndRespond(isCorrect, Judged(r, isCorrect, score),
                   Credited(r, isCorrect, score), dbSaves)

ServeSubmit(r, dbSaves) ==
    IF ~r.Decodes THEN Rejected(400, "Invalid request body")
    ELSE IF r.GameResultID # GameID THEN Rejected(404, "Game not found")
    ELSE IF gameResult.UserID # r.UserID THEN Rejected(401, "Unauthorized")
    ELSE IF StringToBoardPanics(r.FinalGrid)
    THEN Submitted(Aborted, gameResult, userStats, FALSE)
    ELSE ValidateAndScore(
             r, dbSaves,
             IsSolved(StringToBoard(r.FinalGrid),
                      StringToBoard(Puzzle.Solution)),
             CalculateScore(StringToBoard(Puzzle.StartingGrid),
                            StringToBoard(r.FinalGrid),
                            StringToBoard(Puzzle.Solution)))

RespondSubmit(served) ==
    /\ resp' = served.resp
    /\ gameResult' = served.gameResult
    /\ userStats' = served.userStats
    /\ last' = served.step
    /\ prev' = last

HandleSubmitGame ==
    /\ userStats.games_played < MaxGames
    /\ \E r \in SubmitRequests, dbSaves \in BOOLEAN :
          /\ RespondSubmit(ServeSubmit(r, dbSaves))
          /\ request' = [kind |-> "submit", body |-> r]
    /\ UNCHANGED hintState

NextSubmit ==
    HandleSubmitGame /\ UNCHANGED <<engineVars, genVars, codecVars>>

SpecSubmit == InitHandlers /\ [][NextSubmit]_vars

(***************************************************************************)
(* A game with hints and submissions, in any order: fill_cell requests of  *)
(* the owner for the cells of HintCells, with the grid or without, and the *)
(* owner's submissions of the solution with either value of each flag.     *)
(***************************************************************************)
FillRequests ==
    { HintRequest(TRUE, GameID, Owner, "fill_cell", <<p \div 9>>, <<p % 9>>, g) :
        p \in HintCells, g \in HintGrids }

HandleFillHint ==
    /\ \E r \in FillRequests :
          /\ Respond(ServeHint(r))
          /\ request' = [kind |-> "hint", body |-> r]
    /\ UNCHANGED <<userStats, hintState>>

HandleSolutionSubmit ==
    /\ userStats.games_played < MaxGames
    /\ \E h \in BOOLEAN, a \in BOOLEAN, dbSaves \in BOOLEAN :
          /\ RespondSubmit(ServeSubmit(
                 SubmitGameRequest(TRUE, GameID, Owner, Puzzle.Solution, 90,
                                   h, a), dbSaves))
          /\ request' = [kind |-> "submit",
                         body |-> SubmitGameRequest(TRUE, GameID, Owner,
                                                    Puzzle.Solution, 90, h, a)]
    /\ UNCHANGED hintState

NextGame ==
    \/ HandleFillHint /\ UNCHANGED <<engineVars, genVars, codecVars>>
    \/ HandleSolutionSubmit /\ UNCHANGED <<engineVars, genVars, codecVars>>

SpecGame == InitHandlers /\ [][NextGame]_vars

(***************************************************************************)
(* RandomizeBoard (the generator that shuffles a solved board).  A run     *)
(* starts with the board GeneratePuzzle hands over, or another solved      *)
(* grid, and makes one pass of one of the four loops per step: call.count  *)
(* is the number of passes made, 0..2 in the loop over the row bands, 3..5 *)
(* in the loop over the column stacks, then the swap of whole bands and    *)
(* the swap of whole stacks.  call.board keeps the board as it came in.    *)
(***************************************************************************)
\* rand.Perm(3)
Perm3 ==
    {<<0, 1, 2>>, <<0, 2, 1>>, <<1, 0, 2>>, <<1, 2, 0>>, <<2, 0, 1>>, <<2, 1, 0>>}

\* x[i], x[j] = x[j], x[i] on three items: t[i + 1] is the item, numbered
\* by the place it started from, that stands at place i
Exchange(t, i, j) == [t EXCEPT ![i + 1] = t[j + 1], ![j + 1] = t[i + 1]]

\* for i := 0; i < 3; i++ { x[i], x[perm[i]] = x[perm[i]], x[i] }
Arrangement(perm) ==
    Exchange(Exchange(Exchange(<<0, 1, 2>>, 0, perm[1]), 1, perm[2]),
             2, perm[3])

\* the items are the rows start .. start+2 of the board
ShuffleRows(b, start, rows) ==
    [r \in Idx |->
        IF r \div 3 = start \div 3
        THEN b[start + Arrangement(rows)[(r % 3) + 1]]
        ELSE b[r]]

\* ShuffleCols that exchanges the cells of row 0 only
ShuffleCellsOfRow(b, start, cols) ==
    [r \in Idx |-> [c \in Idx |->
        IF r = 0 /\ c \div 3 = start \div 3
        THEN b[r][start + Arrangement(cols)[(c % 3) + 1]]
        ELSE b[r][c]]]

\* the items are the columns start .. start+2, exchanged in every row
ShuffleCols(b, start, cols) ==
    [r \in Idx |-> [c \in Idx |->
        IF c \div 3 = start \div 3
        THEN b[r][start + Arrangement(cols)[(c % 3) + 1]]
        ELSE b[r][c]]]

\* the items are the three bands: rows i*3+j and rowBoxes[i]*3+j, j = 0..2
ShuffleRowBoxes(b, rowBoxes) ==
    [r \in Idx |-> b[3 * Arrangement(rowBoxes)[(r \div 3) + 1] + (r % 3)]]

\* the items are the three stacks, exchanged in every row
ShuffleColBoxes(b, colBoxes) ==
    [r \in Idx |-> [c \in Idx |->
        b[r][3 * Arrangement(colBoxes)[(c \div 3) + 1] + (c % 3)]]]

\* the board solve leaves when it starts from the zero Board
FirstGrid == solve(EmptyBoard).board

RandomizeInputs == {FirstGrid, SolvedGrid, SwappedGrid}

Randomizing(input, passes) ==
    [NoCall EXCEPT !.fn = "RandomizeBoard", !.board = input, !.count = passes]

InitRandomize ==
    /\ board \in RandomizeInputs
    /\ call = Randomizing(board, 0)
    /\ IdleGen
    /\ IdleCodec
    /\ IdleHandlers

RowsPass ==
    /\ call.fn = "RandomizeBoard"
    /\ call.count \in 0..2
    /\ \E rows \in Perm3 : board' = ShuffleRows(board, 3 * call.count, rows)
    /\ call' = [call EXCEPT !.count = @ + 1]

ColsPass ==
    /\ call.fn = "RandomizeBoard"
    /\ call.count \in 3..5
    /\ \E cols \in Perm3 :
          board' = ShuffleCols(board, 3 * (call.count - 3), cols)
    /\ call' = [call EXCEPT !.count = @ + 1]

RowBoxesPass ==
    /\ call.fn = "RandomizeBoard"
    /\ call.count = 6
    /\ \E rowBoxes \in Perm3 : board' = ShuffleRowBoxes(board, rowBoxes)
    /\ call' = [call EXCEPT !.count = @ + 1]

ColBoxesPass ==
    /\ call.fn = "RandomizeBoard"
    /\ call.count = 7
    /\ \E colBoxes \in Perm3 : board' = ShuffleColBoxes(board, colBoxes)
    /\ call' = [call EXCEPT !.count = @ + 1]

NextRandomize ==
    \/ RowsPass /\ UNCHANGED <<genVars, codecVars, handlerVars>>
    \/ ColsPass /\ UNCHANGED <<genVars, codecVars, handlerVars>>
    \/ RowBoxesPass /\ UNCHANGED <<genVars, codecVars, handlerVars>>
    \/ ColBoxesPass /\ UNCHANGED <<genVars, codecVars, handlerVars>>

SpecRandomize == InitRandomize /\ [][NextRandomize]_vars

(***************************************************************************)
(* GeneratePuzzle's call of solveRandom: var solved Board, then            *)
(* solveRandom(&solved).  call.args is the run's seed.                     *)
(***************************************************************************)
InitRandom ==
    /\ board = EmptyBoard
    /\ \E seed \in Seeds : call = [NoCall EXCEPT !.args = seed]
    /\ IdleGen
    /\ IdleCodec
    /\ IdleHandlers

CallSolveRandom ==
    /\ call.fn = "none"
    /\ call' = [call EXCEPT !.fn = "solveRandom",
                            !.ok = solveRandom(board, call.args).ok,
                            !.board = solveRandom(board, call.args).board]
    /\ UNCHANGED board

NextRandom ==
    CallSolveRandom /\ UNCHANGED <<genVars, codecVars, handlerVars>>

SpecRandom == InitRandom /\ [][NextRandom]_vars

(***************************************************************************)
(* solve, solveRandom and countSolutions followed call by call.  A run     *)
(* starts one of them on its board and makes one machine step per step.    *)
(* call.args is the machine state, call.list the boards as they were when  *)
(* the calls now waiting were entered; when a step makes a call return to  *)
(* its caller, call.err tells what it returned and call.board is the board *)
(* as that call was entered.                                               *)
(***************************************************************************)
SearchBoards == EngineBoards \cup AmbiguousBoards

Searching(fn, st, entries, returned, entered) ==
    [NoCall EXCEPT !.fn = fn, !.args = st, !.list = entries,
                   !.err = returned, !.board = entered]

\* the bool a call has returned with
ReturnedTrue(st) ==
    IF "finished" \in DOMAIN st THEN st.finished ELSE st.mode = "true"

\* the boards at entry of the calls open during the step from st
Entered(st, entries) ==
    IF st.mode = "call" /\ FirstEmpty(st.board) # 81
    THEN Append(entries, st.board)
    ELSE entries

\* the record of the step that takes the machine to next, open holding
\* the entry boards of the calls open during the step
Advance(fn, next, open) ==
    IF Len(open) > Len(next.stack)
    THEN Searching(fn, next, SubSeq(open, 1, Len(next.stack)),
                   IF ReturnedTrue(next) THEN "true" ELSE "false",
                   open[Len(open)])
    ELSE Searching(fn, next, open, "", EmptyBoard)

InitSearch ==
    /\ board \in SearchBoards
    /\ \/ call = Searching("solve",
                           [board |-> board, stack |-> << >>, mode |-> "call"],
                           << >>, "", EmptyBoard)
       \/ call = Searching("solveRandom",
                           [board |-> board, stack |-> << >>, mode |-> "call"],
                           << >>, "", EmptyBoard)
       \/ call = Searching("countSolutions",
                           [board |-> board, stack |-> << >>, count |-> 0,
                            mode |-> "call", finished |-> FALSE],
                           << >>, "", EmptyBoard)
    /\ IdleGen
    /\ IdleCodec
    /\ IdleHandlers

\* StepSolve whose loop over value starts again at 1 after a call that
\* returned false
StepSolveRestarting ==
    /\ call.fn = "solve"
    /\ ~solveReturned(call.args)
    /\ call' = Advance("solve",
                       IF call.args.mode = "false"
                       THEN solveLoop(Put(call.args.board,
                                          Top(call.args.stack), 0),
                                      call.args.stack, 1)
                       ELSE solveNext(call.args),
                       Entered(call.args, call.list))
    /\ UNCHANGED board

StepSolve ==
    /\ call.fn = "solve"
    /\ ~solveReturned(call.args)
    /\ call' = Advance("solve", solveNext(call.args),
                       Entered(call.args, call.list))
    /\ UNCHANGED board

StepSolveRandom ==
    /\ call.fn = "solveRandom"
    /\ ~solveReturned(call.args)
    /\ \E n \in 1..Len(ShuffleOutcomes) :
          call' = Advance("solveRandom",
                          randomNext(call.args, ShuffleOutcomes[n]),
                          Entered(call.args, call.list))
    /\ UNCHANGED board

StepCountSolutions ==
    /\ call.fn = "countSolutions"
    /\ ~countReturned(call.args)
    /\ call' = Advance("countSolutions", countNext(call.args),
                       Entered(call.args, call.list))
    /\ UNCHANGED board

NextSearch ==
    \/ StepSolve /\ UNCHANGED <<genVars, codecVars, handlerVars>>
    \/ StepSolveRandom /\ UNCHANGED <<genVars, codecVars, handlerVars>>
    \/ StepCountSolutions /\ UNCHANGED <<genVars, codecVars, handlerVars>>

SpecSearch == InitSearch /\ [][NextSearch]_vars

(***************************************************************************)
(* SolveStep applied again and again, the way the solve-step handler       *)
(* applies it to the grid it is sent: "board[move.Row][move.Col] =         *)
(* move.Value", with the grid that results sent next.  A run starts with a *)
(* puzzle GeneratePuzzle returns (call.board keeps it) and goes on until a *)
(* call returns an error; call.count is the number of moves applied.       *)
(***************************************************************************)
\* the puzzle GeneratePuzzle returns for Hard when rand.Perm is StuckPerm
StuckPuzzle ==
    [i \in Idx |-> [j \in Idx |->
        IF \E k \in 1..53 : StuckPerm[k] = 9 * i + j
        THEN 0 ELSE SolvedGrid[i][j]]]

GeneratedPuzzles == {EasyPuzzle, HardPuzzle, StuckPuzzle}

\* ApplyMove that takes the move's row for the column and the other way
ApplyMoveTransposed(b, move) == [b EXCEPT ![move.Col][move.Row] = move.Value]

\* board[move.Row][move.Col] = move.Value
ApplyMove(b, move) == [b EXCEPT ![move.Row][move.Col] = move.Value]

InitSteps ==
    /\ board \in GeneratedPuzzles
    /\ call = [NoCall EXCEPT !.board = board]
    /\ IdleGen
    /\ IdleCodec
    /\ IdleHandlers

\* the handler once SolveStep has returned step
StepApplied(step) ==
    /\ board' = IF step.err = "" THEN ApplyMove(board, step.move) ELSE board
    /\ call' = [call EXCEPT !.fn = "SolveStep", !.ok = (step.err = ""),
                            !.move = step.move, !.err = step.err,
                            !.count = IF step.err = "" THEN @ + 1 ELSE @]

HandleSolveStep ==
    /\ call.err = ""
    /\ StepApplied(SolveStep(board))

NextSteps ==
    HandleSolveStep /\ UNCHANGED <<genVars, codecVars, handlerVars>>

SpecSteps == InitSteps /\ [][NextSteps]_vars

(***************************************************************************)
(* Termination.  A run is a call of solve, solveRandom or countSolutions   *)
(* followed step by step, or a call of GeneratePuzzle followed pass by     *)
(* pass.  The code is sequential and nothing in it waits: a step that can  *)
(* be taken is taken, which is weak fairness of the next-state relation.   *)
(* Running is the disjunction of the guards of the actions, the condition  *)
(* under which a step can be taken; every step changes call or visited or  *)
(* gpc.                                                                    *)
(***************************************************************************)
Running ==
    \/ call.fn \in {"solve", "solveRandom"} /\ ~solveReturned(call.args)
    \/ call.fn = "countSolutions" /\ ~countReturned(call.args)
    \/ /\ gpc = "loop"
       /\ \/ vacantTiles > 0 /\ NextPositions # {}
          \/ vacantTiles <= 0 \/ visited = Positions

NextTermination ==
    \/ NextSearch
    \/ NextGen

\* weak fairness of NextTermination: a run does not stay for ever where a
\* step can be taken without taking one
StepsAreTaken == []<>(~Running) \/ []<><<NextTermination>>_vars

SpecTermination ==
    /\ InitSearch \/ InitGen
    /\ [][NextTermination]_vars
    /\ StepsAreTaken

(***************************************************************************)
(* What the claims speak of, stated over cell positions 0..80 (row-major)  *)
(* and independently of the engine's operators.                            *)
(***************************************************************************)
At(b, p) == b[p \div 9][p % 9]

BoxOf(p) == 3 * ((p \div 9) \div 3) + ((p % 9) \div 3)

SameUnit(p, q) ==
    \/ p \div 9 = q \div 9
    \/ p % 9 = q % 9
    \/ BoxOf(p) = BoxOf(q)

\* the cells that share a row, a column or a box with p
PeersOf == [p \in Positions |-> {q \in Positions \ {p} : SameUnit(p, q)}]

Empties(b) == {p \in Positions : At(b, p) = 0}

\* no two filled cells of one unit hold the same digit
ConflictFree(b) ==
    \A p \in Positions :
        At(b, p) # 0 => \A q \in PeersOf[p] : At(b, q) # At(b, p)

\* the digits some empty cell of b can take: those that a filled peer of
\* the cell does not hold
OpenDigits(b) ==
    {v \in Digits : \E p \in Empties(b) : \A q \in PeersOf[p] : At(b, q) # v}

\* the ways to fill the empty cells of b that give a grid with each digit
\* once in every row, column and box
LegalCompletions(b) ==
    LET E == Empties(b)
    IN  IF ~ConflictFree(b) THEN {}
        ELSE { f \in [E -> OpenDigits(b)] :
                 \A p \in E : \A q \in PeersOf[p] :
                     (IF q \in E THEN f[q] ELSE At(b, q)) # f[p] }

Filled(b, f) ==
    [i \in Idx |-> [j \in Idx |->
        IF (9 * i + j) \in DOMAIN f THEN f[9 * i + j] ELSE b[i][j]]]

\* f comes no later than g when the grids are read in row-major order
LexLeq(f, g) ==
    \/ f = g
    \/ \E p \in DOMAIN f :
          /\ f[p] < g[p]
          /\ \A q \in DOMAIN f : q < p => f[q] = g[q]

LexLeast(F) == CHOOSE f \in F : \A g \in F : LexLeq(f, g)

(* C1: the pair GeneratePuzzle returns has a puzzle on which countSolutions *)
(* gives exactly 1, and SolvePuzzle of the puzzle succeeds with exactly    *)
(* the returned solution grid, for Easy, Medium and Hard and every order   *)
(* of the positions.                                                       *)
C1_GeneratedPuzzleUnique ==
    gpc = "done" =>
        /\ countSolutions(puzzle, 0).count = 1
        /\ SolvePuzzle(puzzle) = [board |-> solved, success |-> TRUE]

\* a returned Easy puzzle with all 35 cells cleared, a visited cell restored
C1_Witness ==
    /\ gpc = "done"
    /\ vacantTiles = 0
    /\ puzzle = EasyPuzzle
    /\ \E p \in visited : At(puzzle, p) # 0

(* C2: SolvePuzzle reports failure for every board that has no legal       *)
(* completion, boards with contradicting entries and full boards included. *)
C2_FailureReported ==
    (call.fn = "SolvePuzzle" /\ LegalCompletions(board) = {}) => ~call.ok

(* C3: on a conflict-free board with a legal completion SolvePuzzle        *)
(* succeeds and returns the completion that is least in row-major order.   *)
C3_LeastCompletion ==
    call.fn = "SolvePuzzle" =>
        LET completions == LegalCompletions(board)
        IN  completions # {} =>
                /\ call.ok
                /\ call.board = Filled(board, LexLeast(completions))

\* C3's case: a board with several legal completions has been solved
C3_Witness ==
    /\ call.fn = "SolvePuzzle"
    /\ call.ok
    /\ Cardinality(Empties(board)) = MaxEmpty
    /\ Cardinality(LegalCompletions(board)) >= 2


\* the digits no peer of the empty cell p holds
Cands(b, p) == {v \in Digits : \A q \in PeersOf[p] : At(b, q) # v}

NakedCells(b) == {p \in Empties(b) : Cardinality(Cands(b, p)) = 1}

\* units 0..8 are the rows, 9..17 the columns, 18..26 the boxes
UnitCells(k) ==
    IF k < 9 THEN {p \in Positions : p \div 9 = k}
    ELSE IF k < 18 THEN {p \in Positions : p % 9 = k - 9}
    ELSE {p \in Positions : BoxOf(p) = k - 18}

HiddenPlaces(b, k, v) == {p \in UnitCells(k) : At(b, p) = 0 /\ v \in Cands(b, p)}

\* the (unit, digit) pairs with one place, numbered 9 * unit + digit - 1
HiddenKeys(b) ==
    {n \in 0..242 : Cardinality(HiddenPlaces(b, n \div 9, 1 + (n % 9))) = 1}

TheOne(S) == CHOOSE x \in S : TRUE

HiddenReason(k) ==
    IF k < 9 THEN "Hidden Single in Row"
    ELSE IF k < 18 THEN "Hidden Single in Column"
    ELSE "Hidden Single in Box"

\* the move the priority rule asks for; NilMove where it asks for an error
PriorityMove(b) ==
    IF NakedCells(b) # {}
    THEN LET p == SetMin(NakedCells(b))
         IN  Move(p \div 9, p % 9, TheOne(Cands(b, p)), "Naked Single")
    ELSE IF HiddenKeys(b) # {}
    THEN LET n == SetMin(HiddenKeys(b))
             p == TheOne(HiddenPlaces(b, n \div 9, 1 + (n % 9)))
         IN  Move(p \div 9, p % 9, 1 + (n % 9), HiddenReason(n \div 9))
    ELSE IF ~SolvePuzzle(b).success \/ Empties(b) = {}
    THEN NilMove
    ELSE LET p == SetMin(Empties(b))
         IN  Move(p \div 9, p % 9, At(SolvePuzzle(b).board, p), "Advanced Step")

\* board is the generated puzzle EasyPuzzle with some of its empty cells
\* filled with the values of the solution grid
FillOfPuzzle(b) ==
    \A p \in Positions :
        \/ At(b, p) = At(SolvedGrid, p)
        \/ At(b, p) = 0 /\ At(EasyPuzzle, p) = 0

(* C4: on a generated puzzle with any of its empty cells filled from the   *)
(* solution grid, every move SolveStep, FindSolvableCell and GetHint       *)
(* return carries the solution grid's value of the move's cell.            *)
C4_MovesAgreeWithSolution ==
    (/\ call.fn \in {"SolveStep", "FindSolvableCell", "GetHint"}
     /\ call.ok
     /\ FillOfPuzzle(board))
        => /\ At(board, 9 * call.move.Row + call.move.Col) = 0
           /\ call.move.Value = At(SolvedGrid, 9 * call.move.Row + call.move.Col)

\* GetHint answers from the full solve at a cell with several candidates
C4_Witness ==
    /\ call.fn = "GetHint"
    /\ call.ok
    /\ FillOfPuzzle(board)
    /\ call.move.Reason = "Hint"
    /\ Cardinality(Cands(board, 9 * call.row + call.col)) > 1

(* C5: the response to a find_cell request that found a cell does not     *)
(* carry the value of that cell.                                           *)
C5_FindRevealsNoValue ==
    (last.mode = "find_cell" /\ last.ok) =>
        ~(/\ "value" \in DOMAIN resp.body
          /\ resp.body.value = At(SolvedGrid, 9 * last.row + last.col))

(* C6: a fill_cell request succeeds only when the hint request served just *)
(* before it was a find_cell request that succeeded with that same cell.   *)
C6_FillFollowsFind ==
    (last.mode = "fill_cell" /\ last.ok) =>
        /\ prev.mode = "find_cell"
        /\ prev.ok
        /\ prev.row = last.row
        /\ prev.col = last.col

(* C7: whenever GetHint succeeds its value is the value SolvePuzzle's grid *)
(* holds at that cell, on every board, boards with user entries included.  *)
C7_HintIsSolvedValue ==
    (call.fn = "GetHint" /\ call.ok) =>
        call.move.Value = SolvePuzzle(board).board[call.row][call.col]

(* C8: SolveStep returns the first naked single in row-major order; with   *)
(* none, the first hidden single in unit-then-digit order (rows, columns,  *)
(* boxes); with none, the first empty cell with SolvePuzzle's value and    *)
(* the reason "Advanced Step"; and an error when SolvePuzzle fails or the  *)
(* board has no empty cell.                                                *)
C8_StepPriority ==
    call.fn = "SolveStep" =>
        LET want == PriorityMove(board)
        IN  /\ call.ok <=> want # NilMove
            /\ call.move = want

\* C8's case: a board with neither kind of single got its advanced step
C8_Witness ==
    /\ call.fn = "SolveStep"
    /\ call.ok
    /\ call.move.Reason = "Advanced Step"
    /\ NakedCells(board) = {}
    /\ HiddenKeys(board) = {}


\* s is 81 bytes, each an ASCII digit
WellFormed(s) == Len(s) = 81 /\ \A k \in 1..81 : s[k] \in 48..57

(* C9: StringToBoard produces no board for a string whose length is not    *)
(* 81 or that holds a byte other than an ASCII digit.                       *)
C9_MalformedRejected ==
    (conv.fn = "StringToBoard" /\ ~WellFormed(text)) => conv.outcome # "board"

(* C10: BoardToString(StringToBoard(s)) = s for every string s of 81 ASCII  *)
(* digits, and StringToBoard(BoardToString(b)) = b for every board b with   *)
(* cells in 0..9, the cell (row, col) standing at string index 9*row + col. *)
C10_RoundTrip ==
    /\ (conv.fn = "StringToBoard" /\ WellFormed(text)) =>
          /\ conv.outcome = "board"
          /\ BoardToString(conv.board) = text
    /\ (conv.fn = "BoardToString" /\ \A p \in Positions : At(grid, p) \in 0..9) =>
          /\ ~StringToBoardPanics(conv.text)
          /\ StringToBoard(conv.text) = grid
          /\ \A p \in Positions : conv.text[p + 1] = At(grid, p) + 48

\* a board holding a 9 in its first cell and empty cells has been written
\* out as a string
C10_Witness ==
    /\ conv.fn = "BoardToString"
    /\ At(grid, 0) = 9
    /\ \E p \in Positions : At(grid, p) = 0
    /\ \A p \in Positions : At(grid, p) \in 0..9


\* the cells of p's row, column and box other than p that hold v
Holders(b, p, v) == {q \in PeersOf[p] : At(b, q) = v}

(* C11: IsValidMove(board, row, col, value), value in 1..9, is true exactly *)
(* when no cell other than (row, col) in its row, column or box holds       *)
(* value, and what (row, col) itself holds makes no difference.             *)
C11_ValidIffNoPeerHolds ==
    call.fn = "IsValidMove" =>
        /\ call.ok <=> Holders(board, 9 * call.row + call.col, call.value) = {}
        /\ \A x \in 0..9 :
              IsValidMove(Put(board, 9 * call.row + call.col, x),
                          call.row, call.col, call.value) = call.ok

\* C11's case: the cell holds the value itself and no peer does
C11_Witness ==
    /\ call.fn = "IsValidMove"
    /\ call.ok
    /\ board[call.row][call.col] = call.value

(* C12: GetCandidates(board, row, col) is the empty sequence for a filled   *)
(* cell, and for an empty cell exactly the values v of 1..9 with            *)
(* IsValidMove(board, row, col, v), strictly ascending; a second call on    *)
(* the same board returns the same sequence.                                *)
C12_CandidatesAscending ==
    /\ [](call.fn = "GetCandidates" =>
            IF board[call.row][call.col] # 0 THEN call.list = << >>
            ELSE /\ {call.list[k] : k \in 1..Len(call.list)} =
                       {v \in Digits :
                           IsValidMove(board, call.row, call.col, v)}
                 /\ \A k \in 1..Len(call.list) : \A l \in 1..Len(call.list) :
                       k < l => call.list[k] < call.list[l])
    /\ [][(call.fn = "GetCandidates" /\ call'.fn = "GetCandidates")
              => call'.list = call.list]_vars

\* C12's case: an empty cell with several candidates has been asked twice
C12_Witness ==
    /\ call.fn = "GetCandidates"
    /\ call.count = 2
    /\ board[call.row][call.col] = 0
    /\ Len(call.list) >= 2

\* the place in an ascending list of the element n of the set S
Rank(S, n) == Cardinality({m \in S : m < n}) + 1

(* C13: FindNakedSingles returns one move for each empty cell that has      *)
(* exactly one candidate, carrying that candidate and the reason "Naked     *)
(* Single", no other move, in row-major order of the cells.                 *)
C13_NakedSinglesExact ==
    call.fn = "FindNakedSingles" =>
        /\ Len(call.list) = Cardinality(NakedCells(board))
        /\ \A p \in NakedCells(board) :
              call.list[Rank(NakedCells(board), p)] =
                  Move(p \div 9, p % 9, TheOne(Cands(board, p)), "Naked Single")

\* C13's case: several naked singles, and an empty cell with more candidates
C13_Witness ==
    /\ call.fn = "FindNakedSingles"
    /\ Len(call.list) >= 2
    /\ \E p \in Empties(board) : Cardinality(Cands(board, p)) > 1

(* C14: FindHiddenSingles returns one move for each pair (unit, digit), the *)
(* units being the 9 rows, 9 columns and 9 boxes, in which exactly one      *)
(* empty cell of the unit has the digit among its candidates: that cell,    *)
(* that digit, the reason naming the kind of unit; no other move; all rows  *)
(* first, then all columns, then all boxes, digits ascending in a unit.     *)
C14_HiddenSinglesExact ==
    call.fn = "FindHiddenSingles" =>
        LET keys == HiddenKeys(board)
        IN  /\ Len(call.list) = Cardinality(keys)
            /\ \A n \in keys :
                  LET p == TheOne(HiddenPlaces(board, n \div 9, 1 + (n % 9)))
                  IN  call.list[Rank(keys, n)] =
                          Move(p \div 9, p % 9, 1 + (n % 9),
                               HiddenReason(n \div 9))

\* C14's case: a digit with one place in a row and several in the box of
\* that place, so that the row gives a move and the box gives none
C14_Witness ==
    /\ call.fn = "FindHiddenSingles"
    /\ \E n \in HiddenKeys(board) :
          /\ n < 81
          /\ LET p == TheOne(HiddenPlaces(board, n \div 9, 1 + (n % 9)))
             IN  Cardinality(HiddenPlaces(board, 18 + BoxOf(p), 1 + (n % 9))) > 1
    /\ \E n \in HiddenKeys(board) : n >= 162

(* C15: on a board whose filled cells are conflict-free, countSolutions    *)
(* started with the counter at 0 leaves it at min(2, N), N the number of    *)
(* legal completions of the board; on every board the counter ends at most  *)
(* 2 and the call returns true exactly when the counter is 2.               *)
C15_CountIsMinOfTwo ==
    call.fn = "countSolutions" =>
        /\ call.count <= 2
        /\ call.ok <=> call.count = 2
        /\ ConflictFree(board) =>
              LET N == Cardinality(LegalCompletions(board))
              IN  call.count = IF N < 2 THEN N ELSE 2

\* C15's case: a conflict-free board with more than 2 legal completions
C15_Witness ==
    /\ call.fn = "countSolutions"
    /\ ConflictFree(board)
    /\ Cardinality(LegalCompletions(board)) > 2
    /\ call.ok

\* the cells that earn points: empty in initial, filled in final with the
\* solution's digit
Earning(initial, final, solution) ==
    {p \in Positions : /\ At(initial, p) = 0
                       /\ At(final, p) # 0
                       /\ At(final, p) = At(solution, p)}

(* C17: CalculateScore(initial, final, solution) is 10 times the number of  *)
(* cells empty in initial, filled in final and equal to the solution's      *)
(* cell: a multiple of 10 from 0 to 10 times the number of empty cells of   *)
(* initial, to which wrong entries and given cells add nothing, and equal   *)
(* to that maximum when final is the solution.                              *)
C17_ScoreTenPerCorrectCell ==
    call.fn = "CalculateScore" =>
        LET initial == call.args[1]
            solution == call.args[2]
        IN  /\ call.count = 10 * Cardinality(Earning(initial, board, solution))
            /\ call.count % 10 = 0
            /\ call.count >= 0
            /\ call.count <= 10 * Cardinality(Empties(initial))
            /\ board = solution =>
                  call.count = 10 * Cardinality(Empties(initial))

\* C17's case: a final grid with a wrong entry in a cell that was empty,
\* correct entries in others, and all its given cells, has been scored
C17_Witness ==
    /\ call.fn = "CalculateScore"
    /\ call.count > 0
    /\ \E p \in Empties(call.args[1]) :
          At(board, p) # 0 /\ At(board, p) # At(call.args[2], p)
    /\ \E p \in Positions : At(call.args[1], p) # 0 /\ At(board, p) # 0
    /\ IsValidMove(board, 0, 3, board[0][3])

(* C16: the puzzle of GeneratePuzzle never has more empty cells than the   *)
(* target of the difficulty, 35, 45 or 54, so an Easy puzzle keeps at least *)
(* 46 filled cells; once the target number of cells is cleared no further   *)
(* cell is cleared; and when the positions run out before the target is     *)
(* reached the function still returns its puzzle.                           *)
C16_AtMostTargetEmpty ==
    /\ [](gpc \in {"loop", "done"} =>
            /\ Cardinality(Empties(puzzle)) <= TargetVacant(difficulty)
            /\ difficulty = Easy =>
                  Cardinality(Positions \ Empties(puzzle)) >= 46
            /\ (gpc = "loop" /\ visited = Positions) => ENABLED ReturnPuzzle)
    /\ [][vacantTiles = 0 => puzzle' = puzzle]_vars

\* C16's case: a Hard puzzle returned with fewer than 54 empty cells after
\* all 81 positions were tried
C16_Witness ==
    /\ gpc = "done"
    /\ difficulty = Hard
    /\ visited = Positions
    /\ Cardinality(Empties(puzzle)) < 54
    /\ vacantTiles > 0

\* the step serves a submission that got as far as validating the grid
Validated ==
    /\ request'.kind = "submit"
    /\ resp'.status \in {200, 500}

(* C18: a submission for a play-mode game with used_hints or               *)
(* used_auto_solve set marks the game disqualified, computes no score for   *)
(* it and leaves the user's total_points and games_played as they were; a   *)
(* submission computes a score only when the final grid equals the stored   *)
(* solution, the mode is play and neither flag is set.                      *)
C18_FlaggedSubmissionUnscored ==
    [][Validated =>
        LET r == request'.body
            flagged == r.UsedHints \/ r.UsedAutoSolve
        IN  /\ (gameResult.Mode = PlayMode /\ flagged) =>
                  /\ resp'.status = 200 =>
                        gameResult'.Disqualified /\ resp'.body.disqualified
                  /\ gameResult'.Score = gameResult.Score
                  /\ userStats' = userStats
            /\ (userStats' # userStats \/ gameResult'.Score # gameResult.Score)
                  => /\ r.FinalGrid = Puzzle.Solution
                     /\ gameResult.Mode = PlayMode
                     /\ ~flagged]_vars

\* C18's case: a play-mode game that had earned its score was submitted
\* again, with the solution and used_hints set
C18_Witness ==
    /\ request.kind = "submit"
    /\ resp.status = 200
    /\ gameResult.Mode = PlayMode
    /\ request.body.UsedHints
    /\ request.body.FinalGrid = Puzzle.Solution
    /\ gameResult.Disqualified
    /\ gameResult.Score > 0
    /\ userStats.games_played = 1

\* the step serves a fill_cell hint request that names a cell and comes
\* with a grid of 81 bytes or more in which that cell is not empty
FillOfFilledCell ==
    /\ request'.kind = "hint"
    /\ request'.body.Decodes
    /\ request'.body.Mode = "fill_cell"
    /\ request'.body.Row # << >>
    /\ request'.body.Col # << >>
    /\ ~StringToBoardPanics(request'.body.CurrentGrid)
    /\ StringToBoard(request'.body.CurrentGrid)
           [request'.body.Row[1]][request'.body.Col[1]] # 0

(* C19: a hint asked for a cell that is not empty fails: GetHint returns    *)
(* no move and the error "cell is already filled", the handler answers     *)
(* with an error (that one, when the request is the owner's for the stored  *)
(* game), and the stored game result stays as it was.                       *)
C19_FilledCellRefused ==
    [][FillOfFilledCell =>
        LET r == request'.body
        IN  /\ GetHint(StringToBoard(r.CurrentGrid), r.Row[1], r.Col[1])
                  = Failed("cell is already filled")
            /\ resp'.status >= 400
            /\ (r.GameResultID = GameID /\ r.UserID = gameResult.UserID) =>
                  resp' = HttpError(400, "cell is already filled")
            /\ gameResult' = gameResult]_vars

\* C19's case: after a hint had filled a cell, a hint for a filled cell was
\* refused
C19_Witness ==
    /\ request.kind = "hint"
    /\ request.body.Mode = "fill_cell"
    /\ resp = HttpError(400, "cell is already filled")
    /\ prev.mode = "fill_cell"
    /\ prev.ok
    /\ gameResult.UsedHints

(* C20: a hint request of the client that ends in an error, in the find    *)
(* or in the fill phase, leaves hintState at NoHint with no highlighted    *)
(* cell, and the request after an error is a find_cell request without row *)
(* and col; in every state hintState is highlighted exactly when a         *)
(* highlighted cell is recorded.                                           *)
C20_ErrorResetsHintState ==
    /\ [](/\ hintState.step \in {"none", "highlighted"}
          /\ hintState.step = "highlighted" <=>
                hintState.highlightedCell # << >>)
    /\ [][/\ (request'.kind = "hint" /\ resp'.status # 200) =>
                hintState' = NoHint
          /\ (request.kind = "hint" /\ resp.status # 200) =>
                /\ request'.body.Mode = "find_cell"
                /\ request'.body.Row = << >>
                /\ request'.body.Col = << >>]_vars

\* C20's case: a cell was highlighted, the fill request for it ended in an
\* error, and hintState is back at NoHint
C20_Witness ==
    /\ request.kind = "hint"
    /\ request.body.Mode = "fill_cell"
    /\ resp.status # 200
    /\ prev.mode = "find_cell"
    /\ prev.ok
    /\ hintState = NoHint
    /\ gameResult.UsedHints

\* every row, column and box of b holds each digit exactly once
LegalGrid(b) ==
    \A k \in Idx :
        /\ {b[k][m] : m \in Idx} = Digits
        /\ {b[m][k] : m \in Idx} = Digits
        /\ {b[3 * (k \div 3) + (m \div 3)][3 * (k % 3) + (m % 3)] : m \in Idx}
              = Digits

RowsOfBand(b, k) == {b[3 * k], b[3 * k + 1], b[3 * k + 2]}

ColumnOf(b, j) == [i \in Idx |-> b[i][j]]

ColsOfStack(b, k) ==
    {ColumnOf(b, 3 * k), ColumnOf(b, 3 * k + 1), ColumnOf(b, 3 * k + 2)}

(* C21: RandomizeBoard keeps a legal grid legal: after every pass, for     *)
(* every outcome of rand.Perm(3), each row, column and box of the board    *)
(* holds each digit exactly once, and a pass only moves whole rows that    *)
(* stay together band by band with the columns in place, or whole columns  *)
(* that stay together stack by stack with the rows in place.               *)
C21_ShuffleKeepsLegal ==
    /\ [](call.fn = "RandomizeBoard" => LegalGrid(board))
    /\ [][call.fn = "RandomizeBoard" =>
            \/ /\ \A k \in 0..2 : \E m \in 0..2 :
                     RowsOfBand(board', k) = RowsOfBand(board, m)
               /\ \A i \in Idx : \E m \in Idx : board'[i] = board[m]
            \/ /\ \A k \in 0..2 : \E m \in 0..2 :
                     ColsOfStack(board', k) = ColsOfStack(board, m)
               /\ \A j \in Idx : \E m \in Idx :
                     ColumnOf(board', j) = ColumnOf(board, m)]_vars

\* C21's case: all eight passes are made and no row and no column is where
\* it was
C21_Witness ==
    /\ call.fn = "RandomizeBoard"
    /\ call.count = 8
    /\ \A i \in Idx : board[i] # call.board[i]
    /\ \A j \in Idx : ColumnOf(board, j) # ColumnOf(call.board, j)
    /\ LegalGrid(board)

(* C22: solveRandom started on the empty board returns true and leaves a   *)
(* complete grid in which every row, column and box holds each digit       *)
(* exactly once, whatever rand.Shuffle leaves at each call.                *)
C22_RandomGridLegal ==
    call.fn = "solveRandom" =>
        /\ call.ok
        /\ LegalGrid(call.board)
        /\ board = EmptyBoard

\* C22's case: a run whose shuffles led to another grid than the one the
\* ascending order gives
C22_Witness ==
    /\ call.fn = "solveRandom"
    /\ call.ok
    /\ LegalGrid(call.board)
    /\ call.board[0] # <<1, 2, 3, 4, 5, 6, 7, 8, 9>>
    /\ call.args.rest = 3

SearchFns == {"solve", "solveRandom", "countSolutions"}

(* C23: in solve, solveRandom and countSolutions a call that returns false *)
(* leaves the board as it was when the call was entered, and so does a     *)
(* call of countSolutions that returns true; a run that returns false      *)
(* leaves the board it was started on.                                     *)
C23_FailedCallRestoresBoard ==
    (call.fn \in SearchFns /\ call.args # << >>) =>
        /\ call.err = "false" => call.args.board = call.board
        /\ (call.fn = "countSolutions" /\ call.err = "true") =>
              call.args.board = call.board
        /\ (call.args.stack = << >> /\ call.err = "false") =>
              call.args.board = board

\* C23's case: a call has returned false after a value had been placed in
\* its cell and the call made for the rest of the board had failed
C23_Witness ==
    /\ call.fn \in {"solve", "solveRandom"}
    /\ call.args # << >>
    /\ call.err = "false"
    /\ call.args.board = call.board
    /\ Cardinality(Empties(call.board)) >= 3
    /\ \E v \in Digits :
          IsValidMove(call.board, FirstEmpty(call.board) \div 9,
                      FirstEmpty(call.board) % 9, v)

StepFns == {"SolveStep", "FindSolvableCell", "GetHint"}

(* C24: a move returned by SolveStep, FindSolvableCell or GetHint can be   *)
(* applied to the board passed in: its row and col are in 0..8, the cell   *)
(* is empty on that board, its value is in 1..9 and IsValidMove holds for  *)
(* it (no other cell of the row, column or box holds the value); a call    *)
(* that returns an error returns no move.                                  *)
C24_MoveApplicable ==
    call.fn \in StepFns =>
        IF call.ok
        THEN /\ call.move.Row \in Idx
             /\ call.move.Col \in Idx
             /\ board[call.move.Row][call.move.Col] = 0
             /\ call.move.Value \in Digits
             /\ IsValidMove(board, call.move.Row, call.move.Col,
                            call.move.Value)
             /\ Holders(board, 9 * call.move.Row + call.move.Col,
                        call.move.Value) = {}
        ELSE call.move = NilMove

\* C24's case: GetHint took the value from the solved board, for a board
\* that holds a digit the solved grid does not have there
C24_Witness ==
    /\ call.fn = "GetHint"
    /\ call.ok
    /\ call.move.Reason = "Hint"
    /\ \E p \in EntryCells : At(board, p) \notin {0, At(SolvedGrid, p)}
    /\ Holders(board, 9 * call.move.Row + call.move.Col, call.move.Value) = {}

(* C29: SolveStep called on a board without an empty cell returns an error *)
(* and no move, whether the full board is a legal solution or holds a      *)
(* digit twice in a unit; FindSolvableCell returns what SolveStep returns. *)
C29_FullBoardNoStep ==
    /\ (call.fn \in {"SolveStep", "FindSolvableCell"} /\ Empties(board) = {})
          => /\ ~call.ok
             /\ call.err = "could not fill any cell"
             /\ call.move = NilMove
    /\ call.fn = "FindSolvableCell" =>
          /\ call.move = SolveStep(board).move
          /\ call.err = SolveStep(board).err

\* C29's case: SolveStep was called on a full board that holds a digit
\* twice in a row
C29_Witness ==
    /\ call.fn = "SolveStep"
    /\ Empties(board) = {}
    /\ ~ConflictFree(board)
    /\ ~call.ok
    /\ call.move = NilMove

\* hint is a move for the cell of found with the value of found
SameValue(found, hint) ==
    /\ hint.err = ""
    /\ hint.move.Row = found.Row
    /\ hint.move.Col = found.Col
    /\ hint.move.Value = found.Value

(* C26 as stated: when FindSolvableCell succeeds on a board with the cell  *)
(* (r, c), GetHint(board, r, c) on the same board succeeds too and returns *)
(* the same value for that cell.                                           *)
C26_PhasesAgree ==
    (call.fn = "FindSolvableCell" /\ call.ok) =>
        SameValue(call.move, GetHint(board, call.move.Row, call.move.Col))

(* C26, corrected: when FindSolvableCell succeeds on a board with the cell *)
(* (r, c), GetHint(board, r, c) returns the very same move if SolvePuzzle  *)
(* succeeds on the board, and the error "puzzle cannot be solved from      *)
(* current state" if it does not.                                          *)
C26_PhasesAgreeWhenSolvable ==
    (call.fn = "FindSolvableCell" /\ call.ok) =>
        GetHint(board, call.move.Row, call.move.Col)
            = IF SolvePuzzle(board).success
              THEN Found(call.move)
              ELSE Failed("puzzle cannot be solved from current state")

\* C26's case: a cell was found on a board with several empty cells that
\* SolvePuzzle completes, and GetHint returns the same move for it
C26_Witness ==
    /\ call.fn = "FindSolvableCell"
    /\ call.ok
    /\ Cardinality(Empties(board)) >= 2
    /\ SolvePuzzle(board).success
    /\ SameValue(call.move, GetHint(board, call.move.Row, call.move.Col))

(* C25: starting from a puzzle of GeneratePuzzle and applying the move of  *)
(* SolveStep to the board again and again, every call succeeds while the   *)
(* board has an empty cell, each move changes exactly one cell, which was  *)
(* empty, and the board equals the solution grid after exactly as many     *)
(* moves as the puzzle had empty cells (and not before).                   *)
C25_StepsReachSolution ==
    /\ [](/\ call.count + Cardinality(Empties(board))
                = Cardinality(Empties(call.board))
          /\ Empties(board) = {} <=> board = SolvedGrid)
    /\ [][Empties(board) # {} =>
            /\ call'.ok
            /\ At(board, 9 * call'.move.Row + call'.move.Col) = 0
            /\ {p \in Positions : At(board', p) # At(board, p)}
                  = {9 * call'.move.Row + call'.move.Col}
            /\ Empties(board') = Empties(board)
                                    \ {9 * call'.move.Row + call'.move.Col}]_vars

\* C25's case: the puzzle with 53 empty cells has been completed, the last
\* move being the 53rd
C25_Witness ==
    /\ call.fn = "SolveStep"
    /\ call.ok
    /\ call.count = 53
    /\ Cardinality(Empties(call.board)) = 53
    /\ board = SolvedGrid

(* C27: over any sequence of SubmitGame requests for the one game result,  *)
(* the user's games_played grows by one at most and total_points by the    *)
(* game's score at most once, and a game result marked disqualified has    *)
(* score 0.                                                                *)
C27_CreditedOnce ==
    /\ userStats.games_played <= 1
    /\ userStats.total_points
          <= CalculateScore(StringToBoard(Puzzle.StartingGrid),
                            StringToBoard(Puzzle.Solution),
                            StringToBoard(Puzzle.Solution))
    /\ gameResult.Disqualified => gameResult.Score = 0

(* C28: when a fill_cell hint has just been served for a play-mode game,   *)
(* so that the stored game result has UsedHints = true, the submission     *)
(* that follows marks the game disqualified and awards no score, whatever  *)
(* used_hints it carries.                                                  *)
C28_HintedGameDisqualified ==
    [][(/\ last.mode = "fill_cell"
        /\ last.ok
        /\ gameResult.UsedHints
        /\ gameResult.Mode = PlayMode
        /\ Validated) =>
          /\ resp'.status = 200 =>
                gameResult'.Disqualified /\ resp'.body.disqualified
          /\ gameResult'.Score = gameResult.Score
          /\ userStats' = userStats]_vars


\* the call the run follows has returned
Finished ==
    \/ call.fn \in {"solve", "solveRandom"} /\ solveReturned(call.args)
    \/ call.fn = "countSolutions" /\ countReturned(call.args)
    \/ gpc = "done"

\* C30: every call of solve and of countSolutions returns, and so does
\* GeneratePuzzle: each pass of its loop visits one position not visited
\* before, no pass is made once the target number of cells is cleared, and it
\* returns with the target reached or all 81 positions visited.
C30_Terminates ==
    /\ <>Finished
    /\ [][visited' # visited =>
            /\ vacantTiles > 0
            /\ visited \subseteq visited'
            /\ Cardinality(visited') = Cardinality(visited) + 1
            /\ visited' \subseteq Positions]_vars
    /\ [](gpc = "done" => vacantTiles = 0 \/ visited = Positions)

\* GeneratePuzzle has returned with all 81 positions visited and the target
\* not reached
C30_Witness == gpc = "done" /\ visited = Positions /\ vacantTiles > 0
=============================================================================
